---- MODULE Spec2Model ----
(***************************************************************************)
(* A model of onchg: the block scanner (src/src/file.rs), the target graph *)
(* and the change validation (src/src/parser.rs).                          *)
(*                                                                         *)
(* Text is a sequence of one-character strings.  A path is the sequence of *)
(* its components (the equality Rust's Path uses), a component being text. *)
(* Option<T> is a sequence of length 0 (None) or 1 (Some).                 *)
(***************************************************************************)
EXTENDS Integers, Sequences, FiniteSets, TLC

VARIABLES
    fs,                         \* regular files under the scan root: path -> contents
    tc_path, tc_text, tc_line,  \* build_then_change: referencing file, raw text, line
    then_change,                \* build_then_change: its result
    tc_file_path,               \* parse_then_target_file_path: its result
    hk_block, hk_hunk,          \* find_changed_blocks: a block of the file, a staged hunk
    hk_changed,                 \* find_changed_blocks: whether the block is reported
    hk_overlap,                 \* is_hunk_overlap: its answer for the block and the hunk
    hk_event,                   \* is_line_changed_within: its answer for them
    matches,                    \* parse_internal: the markers handled so far
    block_stack, blocks,        \* parse_internal: open blocks, closed blocks
    block_name_to_start_line,   \* parse_internal: names seen so far
    scan_path, scan_result,     \* parse_internal: file scanned, its result
    mode, paths,                \* the run: "repo" or "directory"; staged or walked paths
    pc,                         \* the run: where it stands
    file_stack, files,          \* from_files: paths left to parse; Parser::files
    parser,                     \* the result of the construction
    hunk_todo,                  \* validate_git_repo: keys of staged_hunks left
    hunks_seen, changed_blocks, \* find_changed_blocks: hunks read, blocks found
    files_changed, blocks_changed, targetable_blocks_changed,
    violations,                 \* the result of validate_git_repo
    scanned,                    \* from_files: the paths given to File::parse so far
    quiet,                      \* main: the --quiet flag
    exit_code,                  \* main: the exit code, -1 while the process runs
    stderr, shown,              \* main: what is reported, the violations printed
    workers,                    \* from_directory: the scan of each walked file
    file_items,                 \* from_directory: the collected scans
    ln_data, ln_pos,            \* byte_to_line: the bytes of a file, a position in it
    ln_map, ln_line,            \* byte_to_line: the table, the line found
    staged_hunks,               \* validate_git_repo: the hunks of the file at hand
    hd_backend,                 \* Hunk::from: the diff source, git2 or the git CLI
    hd_start, hd_count,         \* Hunk::from: the new-file range of the hunk header
    hd_hunk                     \* Hunk::from: the hunk built

----------------------------------------------------------------------------
(* Bounds *)

MaxTextLen == 5
MaxMarkers == 4
MaxHunkLines == 2
MaxHunks == 1
MaxLine == 4
MaxShift == 1
MaxSegs == 4
MaxDiffLines == 3
MaxContext == 3

MaxTargets == 11

MaxDataLen == 5
MaxStaged == 2
MaxNewStart == 8
MaxNewCount == 5

DEFAULT_MAX_VIOLATIONS_TO_DISPLAY == 10
MaxBlockEnd == 8

----------------------------------------------------------------------------
(* Option, Result *)

None == <<>>
Some(x) == <<x>>
IsSome(o) == Len(o) = 1
Unwrap(o) == o[1]

NoErr == [what |-> "none", file |-> <<>>, line |-> 0, name |-> <<>>,
          line2 |-> 0, target |-> <<>>]
Ok(v) == [kind |-> "ok", val |-> v, err |-> NoErr]
Err(e) == [kind |-> "err", val |-> <<>>, err |-> e]
Panic(w) == [kind |-> "panic", val |-> <<>>, err |-> [NoErr EXCEPT !.what = w]]

MaxOf(S) == CHOOSE x \in S : \A y \in S : y <= x
MinOf(S) == CHOOSE x \in S : \A y \in S : x <= y

----------------------------------------------------------------------------
(* str: trim, contains, split *)

RECURSIVE TrimStart(_)
TrimStart(s) ==
    IF s # <<>> /\ Head(s) = " " THEN TrimStart(Tail(s)) ELSE s

RECURSIVE TrimEnd(_)
TrimEnd(s) ==
    IF s # <<>> /\ s[Len(s)] = " " THEN TrimEnd(SubSeq(s, 1, Len(s) - 1)) ELSE s

Trim(s) == TrimEnd(TrimStart(s))

Contains(s, c) == \E i \in 1..Len(s) : s[i] = c

StartsWith(s, p) == Len(s) >= Len(p) /\ SubSeq(s, 1, Len(p)) = p

\* str::split: the pieces between the separators, empty pieces kept
RECURSIVE SplitFrom(_, _, _)
SplitFrom(s, c, cur) ==
    IF s = <<>> THEN <<cur>>
    ELSE IF Head(s) = c THEN <<cur>> \o SplitFrom(Tail(s), c, <<>>)
    ELSE SplitFrom(Tail(s), c, Append(cur, Head(s)))

SplitStr(s, c) == SplitFrom(s, c, <<>>)

----------------------------------------------------------------------------
(* std::path *)

CurDir == <<".">>
ParentDir == <<".", ".">>
RootDir == <<"/">>

IsRelative(s) == s = <<>> \/ s[1] # "/"

RECURSIVE NormalSegments(_)
NormalSegments(segs) ==
    IF segs = <<>> THEN <<>>
    ELSE IF Head(segs) = <<>> \/ Head(segs) = CurDir
         THEN NormalSegments(Tail(segs))
         ELSE <<Head(segs)>> \o NormalSegments(Tail(segs))

\* Path::components: empty segments and every "." but a leading one are dropped
Components(s) ==
    LET segs == SplitStr(s, "/") IN
    (IF ~IsRelative(s) THEN <<RootDir>>
     ELSE IF segs[1] = CurDir THEN <<CurDir>> ELSE <<>>)
    \o NormalSegments(segs)

\* Path::parent
Parent(p) ==
    IF p = <<>> \/ p[Len(p)] = RootDir THEN None
    ELSE Some(SubSeq(p, 1, Len(p) - 1))

\* Path::join
Join(p, q) ==
    IF q # <<>> /\ q[1] = RootDir THEN q
    ELSE IF p = <<>> THEN q
    ELSE IF q # <<>> /\ q[1] = CurDir THEN p \o Tail(q)
    ELSE p \o q

\* the path must name a directory: "x/" or "x/."
EndsAsDir(s) ==
    \/ s # <<>> /\ s[Len(s)] = "/"
    \/ Len(s) >= 2 /\ s[Len(s) - 1] = "/" /\ s[Len(s)] = "."

Files(tree) == DOMAIN tree
Dirs(tree) ==
    {<<>>} \cup UNION {{SubSeq(p, 1, k) : k \in 0..(Len(p) - 1)} : p \in Files(tree)}

\* root_path.join(p).exists(), walking p from the root directory
RECURSIVE Walk(_, _, _, _)
Walk(tree, cur, rest, dir) ==
    IF rest = <<>> THEN (cur \in Dirs(tree) \/ (cur \in Files(tree) /\ ~dir))
    ELSE IF cur \notin Dirs(tree) THEN FALSE
    ELSE LET c == Head(rest) IN
         IF c = CurDir THEN Walk(tree, cur, Tail(rest), dir)
         ELSE IF c = RootDir THEN Tail(rest) = <<>>
         ELSE IF c = ParentDir
              THEN IF cur = <<>> THEN Tail(rest) = <<>>
                   ELSE Walk(tree, SubSeq(cur, 1, Len(cur) - 1), Tail(rest), dir)
         ELSE Walk(tree, Append(cur, c), Tail(rest), dir)

Exists(tree, p, dir) == Walk(tree, <<>>, p, dir)

----------------------------------------------------------------------------
(* File::parse_then_target_file_path *)

\* the loop over the leading "." and ".." components of the target
RECURSIVE StripPrefixes(_, _)
StripPrefixes(parent, raw) ==
    IF raw = <<>> THEN Ok([parent |-> parent, raw |-> raw])
    ELSE IF Head(raw) = CurDir THEN StripPrefixes(parent, Tail(raw))
    ELSE IF Head(raw) = ParentDir
         THEN IF Parent(parent) = None THEN Panic("path should have a parent")
              ELSE StripPrefixes(Unwrap(Parent(parent)), Tail(raw))
    ELSE Ok([parent |-> parent, raw |-> raw])

\* the existence test on the resolved path
CheckExists(tree, file_path, dir, path, line_num) ==
    IF Exists(tree, file_path, dir) THEN Ok(file_path)
    ELSE Err([NoErr EXCEPT !.what = "does not exist", !.target = file_path,
                           !.file = path, !.line = line_num])

\* parent.join(raw_path), then the existence test
JoinStripped(tree, s, dir, path, line_num) ==
    IF s.kind # "ok" THEN s
    ELSE CheckExists(tree, Join(s.val.parent, s.val.raw), dir, path, line_num)

\* variant: the target joined to the scan root, the referencing file ignored
ResolveRelativeToRoot(tree, parent, raw_path, dir, path, line_num) ==
    JoinStripped(tree, StripPrefixes(<<>>, raw_path), dir, path, line_num)

\* a relative target, resolved against the referencing file's directory
ResolveRelative(tree, parent, raw_path, dir, path, line_num) ==
    JoinStripped(tree,
                 IF parent # Unwrap(Parent(raw_path))
                 THEN StripPrefixes(parent, raw_path)
                 ELSE Ok([parent |-> parent, raw |-> raw_path]),
                 dir, path, line_num)

\* strip_prefix("//"): the rest of the text is the path under the scan root
StripSlashes(then_change_target) ==
    SubSeq(then_change_target, 3, Len(then_change_target))

\* variant: the "//" target joined to the referencing file's directory
ResolveRootRelativeToParent(tree, then_change_target, path, line_num) ==
    CheckExists(tree,
                Join(Unwrap(Parent(path)), Components(StripSlashes(then_change_target))),
                EndsAsDir(then_change_target), path, line_num)

\* a "//" target: the path under the scan root, then the existence test
ResolveRootRelative(tree, then_change_target, path, line_num) ==
    CheckExists(tree, Components(StripSlashes(then_change_target)),
                EndsAsDir(then_change_target), path, line_num)

parse_then_target_file_path(tree, path, then_change_target, line_num) ==
    IF IsRelative(then_change_target)
    THEN IF Parent(path) = None THEN Panic("path should have a parent")
         ELSE IF Parent(Components(then_change_target)) = None
              THEN Panic("unwrap on None")
         ELSE ResolveRelative(tree, Unwrap(Parent(path)),
                              Components(then_change_target),
                              EndsAsDir(then_change_target), path, line_num)
    ELSE IF StartsWith(then_change_target, <<"/", "/">>)
    THEN ResolveRootRelative(tree, then_change_target, path, line_num)
    ELSE Err([NoErr EXCEPT !.what = "is invalid",
                           !.target = Components(then_change_target),
                           !.file = path, !.line = line_num])

----------------------------------------------------------------------------
(* ThenChangeTarget, ThenChange *)

FileTarget(p) == [kind |-> "File", file |-> Some(p), block |-> <<>>]
BlockTarget(b, f) == [kind |-> "Block", file |-> f, block |-> b]

Unset == [kind |-> "Unset", targets |-> <<>>]
NoTarget == [kind |-> "NoTarget", targets |-> <<>>]
Targets(v) == [kind |-> "Targets", targets |-> v]

\* ThenChangeTarget::File(file_path) of a resolved path
AsFileTarget(r) == IF r.kind = "ok" THEN Ok(FileTarget(r.val)) ELSE r

\* ThenChangeTarget::Block { block, file: Some(file_path) } of a resolved path
AsBlockTarget(r, block_name) ==
    IF r.kind = "ok" THEN Ok(BlockTarget(block_name, Some(r.val))) ELSE r

(* File::parse_single_then_change_target, the target split on ":" *)
\* a variant that takes the block name before the ':' and the file after it
BlockTargetOfSplitSwapped(tree, path, split_target, line_num) ==
    IF Len(split_target) < 2
    THEN Err([NoErr EXCEPT !.what = "invalid ThenChange target",
                           !.line = line_num])
    ELSE IF split_target[2] = <<>>
    THEN Ok(BlockTarget(split_target[1], None))
    ELSE AsBlockTarget(
             parse_then_target_file_path(tree, path, split_target[2], line_num),
             split_target[1])

BlockTargetOfSplit(tree, path, split_target, line_num) ==
    IF Len(split_target) < 2
    THEN Err([NoErr EXCEPT !.what = "invalid ThenChange target",
                           !.line = line_num])
    ELSE IF split_target[1] = <<>>
    THEN Ok(BlockTarget(split_target[2], None))
    ELSE AsBlockTarget(
             parse_then_target_file_path(tree, path, split_target[1], line_num),
             split_target[2])

(* File::parse_single_then_change_target *)
parse_single_then_change_target(tree, path, then_change_target, line_num) ==
    IF ~Contains(then_change_target, ":")
    THEN AsFileTarget(
             parse_then_target_file_path(tree, path, then_change_target, line_num))
    ELSE BlockTargetOfSplit(tree, path, SplitStr(then_change_target, ":"), line_num)

(* File::build_then_change: the loop over the comma-separated targets stops *)
(* at the first target that fails                                          *)
RECURSIVE ParseTargets(_, _, _, _, _)
RECURSIVE PushTarget(_, _, _, _, _, _)

PushTarget(tree, path, rest, line_num, acc, t) ==
    IF t.kind # "ok" THEN t
    ELSE ParseTargets(tree, path, rest, line_num, Append(acc, t.val))

ParseTargets(tree, path, split_by_comma, line_num, acc) ==
    IF split_by_comma = <<>> THEN Ok(Targets(acc))
    ELSE PushTarget(tree, path, Tail(split_by_comma), line_num, acc,
                    parse_single_then_change_target(tree, path,
                        Trim(Head(split_by_comma)), line_num))

\* split(",") of the trimmed text
SplitByComma(then_change_target) == SplitStr(then_change_target, ",")

build_then_change(tree, path, raw, line_num) ==
    IF Trim(raw) = <<>> THEN Ok(NoTarget)
    ELSE ParseTargets(tree, path, SplitByComma(Trim(raw)), line_num, <<>>)

----------------------------------------------------------------------------
(* OnChangeBlock *)

UNNAMED == <<"<unnamed>">>

OnChangeBlock(file, name, start_line, end_line, tc) ==
    [file |-> file, name |-> name, start_line |-> start_line,
     end_line |-> end_line, then_change |-> tc]

\* OnChangeBlock::name
BlockName(b) == IF IsSome(b.name) THEN Unwrap(b.name) ELSE UNNAMED

\* OnChangeBlock::is_targetable
IsTargetable(b) == IsSome(b.name)

(* LineMatch: a marker found by ON_CHANGE_PAT, with the line of its first byte *)
OnChangeMatch(data, line) == [kind |-> "OnChange", data |-> data, line |-> line]
ThenChangeMatch(data, line) == [kind |-> "ThenChange", data |-> data, line |-> line]

----------------------------------------------------------------------------
(* File::handle_on_change *)

\* block_name_to_start_line.insert(block_name, line_num), for a named block
InsertName(names, parsed, line_num) ==
    IF parsed = <<>> THEN names
    ELSE [n \in DOMAIN names \cup {parsed} |->
             IF n = parsed THEN line_num ELSE names[n]]

\* block_stack.push(OnChangeBlock { .. })
PushBlock(stack, file, parsed, line_num) ==
    Append(stack, OnChangeBlock(file, IF parsed = <<>> THEN None ELSE Some(parsed),
                                line_num, 0, Unset))

\* a variant without the duplicate check
handle_on_change_no_dup_check(file, parsed, line_num, names, stack) ==
    Ok([names |-> InsertName(names, parsed, line_num),
        stack |-> PushBlock(stack, file, parsed, line_num)])

handle_on_change(file, parsed, line_num, names, stack) ==
    IF parsed # <<>> /\ parsed \in DOMAIN names
    THEN Err([NoErr EXCEPT !.what = "duplicate block name", !.name = parsed,
                           !.file = file, !.line = names[parsed],
                           !.line2 = line_num])
    ELSE Ok([names |-> InsertName(names, parsed, line_num),
             stack |-> PushBlock(stack, file, parsed, line_num)])

(* File::handle_then_change *)

\* a variant that leaves then_change as pushed
CloseBlockKeepUnset(block, rest, tc, line_num) ==
    IF tc.kind # "ok" THEN tc
    ELSE Ok([block |-> [block EXCEPT !.end_line = line_num], stack |-> rest])

\* the popped block, closed with its end line and its targets
\* a variant that leaves end_line as pushed
CloseBlockKeepEnd(block, rest, tc, line_num) ==
    IF tc.kind # "ok" THEN tc
    ELSE Ok([block |-> [block EXCEPT !.then_change = tc.val], stack |-> rest])

CloseBlock(block, rest, tc, line_num) ==
    IF tc.kind # "ok" THEN tc
    ELSE Ok([block |-> [block EXCEPT !.end_line = line_num,
                                     !.then_change = tc.val],
             stack |-> rest])

\* block_stack.pop()
\* a variant that takes the oldest open block
PoppedFirst(stack) == [block |-> stack[1], rest |-> Tail(stack)]

Popped(stack) ==
    [block |-> stack[Len(stack)], rest |-> SubSeq(stack, 1, Len(stack) - 1)]

\* a variant that reads the target text before it pops the stack
handle_then_change_target_first(tree, path, parsed, line_num, stack) ==
    IF build_then_change(tree, path, parsed, line_num).kind # "ok"
    THEN build_then_change(tree, path, parsed, line_num)
    ELSE IF stack = <<>>
    THEN Err([NoErr EXCEPT !.what = "no matching OnChange", !.file = path,
                           !.line = line_num])
    ELSE CloseBlock(Popped(stack).block, Popped(stack).rest,
                    build_then_change(tree, path, parsed, line_num), line_num)

handle_then_change(tree, path, parsed, line_num, stack) ==
    IF stack = <<>>
    THEN Err([NoErr EXCEPT !.what = "no matching OnChange", !.file = path,
                           !.line = line_num])
    ELSE CloseBlock(Popped(stack).block, Popped(stack).rest,
                    build_then_change(tree, path, parsed, line_num), line_num)

(* File::parse_internal, after the last marker *)
\* a variant that names the outermost open block
parse_internal_eof_outermost(path, stack, done) ==
    IF Len(stack) > 0
    THEN Err([NoErr EXCEPT !.what = "reached end of file", !.file = path,
                           !.name = BlockName(stack[1]),
                           !.line = stack[1].start_line])
    ELSE Ok(done)

parse_internal_eof(path, stack, done) ==
    IF Len(stack) > 0
    THEN Err([NoErr EXCEPT !.what = "reached end of file", !.file = path,
                           !.name = BlockName(stack[Len(stack)]),
                           !.line = stack[Len(stack)].start_line])
    ELSE Ok(done)

(* File::build_byte_pos_to_line_mapping, File::byte_to_line *)

\* bstr lines_with_terminator: the length of each line, its "\n" included;
\* the last line may have none
RECURSIVE LineLengths(_, _)
LineLengths(data, len) ==
    IF data = <<>> THEN (IF len = 0 THEN <<>> ELSE <<len>>)
    ELSE IF Head(data) = "\n" THEN <<len + 1>> \o LineLengths(Tail(data), 0)
    ELSE LineLengths(Tail(data), len + 1)

RECURSIVE PushLines(_, _, _, _)
PushLines(v, pos, line_num, lens) ==
    IF lens = <<>> THEN v
    ELSE PushLines(Append(v, <<pos, line_num>>), pos + Head(lens), line_num + 1,
                   Tail(lens))

build_byte_pos_to_line_mapping(data) == PushLines(<<>>, 0, 1, LineLengths(data, 0))

\* slice::binary_search_by_key on the positions; indices from 0;
\* [found, idx] stands for Ok(idx) and Err(idx)
RECURSIVE BinarySearch(_, _, _, _)
BinarySearch(mapping, key, left, right) ==
    IF left >= right THEN [found |-> FALSE, idx |-> left]
    ELSE IF mapping[left + (right - left) \div 2 + 1][1] < key
    THEN BinarySearch(mapping, key, left + (right - left) \div 2 + 1, right)
    ELSE IF mapping[left + (right - left) \div 2 + 1][1] > key
    THEN BinarySearch(mapping, key, left, left + (right - left) \div 2)
    ELSE [found |-> TRUE, idx |-> left + (right - left) \div 2]

\* mapping[idx].1, with the bounds check of the index
LineAt(mapping, idx) ==
    IF idx < 0 \/ idx >= Len(mapping) THEN Panic("index out of bounds")
    ELSE Ok(mapping[idx + 1][2])

\* variant: the insertion point is taken as it is
byte_to_line_at_insertion(mapping, res) ==
    LineAt(mapping, res.idx)

byte_to_line(mapping, res) ==
    LineAt(mapping, IF res.found THEN res.idx ELSE res.idx - 1)

(* File::parse_internal, one marker *)
EmptyNames == [n \in {} |-> 0]
ScanStart == [names |-> EmptyNames, stack |-> <<>>, blocks |-> <<>>]

\* the scan after an OnChange marker
AfterOnChange(st, r) ==
    IF r.kind # "ok" THEN r
    ELSE Ok([names |-> r.val.names, stack |-> r.val.stack, blocks |-> st.blocks])

\* the scan after a ThenChange marker: blocks.push(block)
AfterThenChange(st, r) ==
    IF r.kind # "ok" THEN r
    ELSE Ok([names |-> st.names, stack |-> r.val.stack,
             blocks |-> Append(st.blocks, r.val.block)])

parse_internal_step(tree, path, st, m) ==
    IF m.kind = "OnChange"
    THEN AfterOnChange(st, handle_on_change(path, m.data, m.line, st.names, st.stack))
    ELSE AfterThenChange(st, handle_then_change(tree, path, m.data, m.line, st.stack))

RECURSIVE ParseLoop(_, _, _, _)
RECURSIVE ParseLoopNext(_, _, _, _)

ParseLoopNext(tree, path, r, ms) ==
    IF r.kind # "ok" THEN r ELSE ParseLoop(tree, path, r.val, ms)

ParseLoop(tree, path, st, ms) ==
    IF ms = <<>> THEN parse_internal_eof(path, st.stack, st.blocks)
    ELSE ParseLoopNext(tree, path, parse_internal_step(tree, path, st, Head(ms)),
                       Tail(ms))

\* File::parse_internal on a file of the tree (reading a directory fails)
parse_internal(tree, path) ==
    IF path \notin Files(tree)
    THEN Err([NoErr EXCEPT !.what = "io", !.file = path])
    ELSE ParseLoop(tree, path, ScanStart, tree[path])

----------------------------------------------------------------------------
(* File::parse *)

Range(s) == {s[i] : i \in 1..Len(s)}

\* the targets of a block, as a sequence
TargetsOf(b) ==
    IF b.then_change.kind = "Targets" THEN b.then_change.targets ELSE <<>>

\* variant: only File targets are followed, cross-file Block targets are not
FilesToParseFileTargetsOnly(blks) ==
    UNION {{Unwrap(t.file) : t \in {x \in Range(TargetsOf(blks[i])) : x.kind = "File"}} :
              i \in 1..Len(blks)}

\* files_to_parse: the file of every target that has one
FilesToParse(blks) ==
    UNION {{Unwrap(t.file) : t \in {x \in Range(TargetsOf(blks[i])) : IsSome(x.file)}} :
              i \in 1..Len(blks)}

\* the "?" after parse_internal, then the collection of files_to_parse
FileOfBlocks(path, r) ==
    IF r.kind # "ok" THEN r
    ELSE IF \E i \in 1..Len(r.val) : r.val[i].then_change.kind = "Unset"
    THEN Panic("unreachable")
    ELSE Ok([path |-> path, blocks |-> r.val,
             files_to_parse |-> FilesToParse(r.val)])

FileParse(tree, path) == FileOfBlocks(path, parse_internal(tree, path))

----------------------------------------------------------------------------
(* Parser: files is the BTreeMap path -> blocks of the file *)

NoFiles == [p \in {} |-> <<>>]

\* files.insert(path, file)
Insert(files_, path, blks) ==
    [p \in DOMAIN files_ \cup {path} |-> IF p = path THEN blks ELSE files_[p]]

\* the order a BTreeMap iterates the paths of the model in
PathF == <<<<"f">>>>
PathG == <<<<"g">>>>
PathH == <<<<"h">>>>
PathOrder == <<PathF, PathG, PathH>>
SortedPaths(S) == SelectSeq(PathOrder, LAMBDA p : p \in S)

\* Parser::on_change_blocks: the keys of the map of targetable blocks
on_change_blocks(files_) ==
    UNION {{<<p, BlockName(b)>> : b \in {x \in Range(files_[p]) : IsTargetable(x)}} :
              p \in DOMAIN files_}

NonExistentTarget(path, block, target) ==
    Err([NoErr EXCEPT !.what = "non-existent ThenChange target",
                      !.name = BlockName(block), !.file = path,
                      !.line = block.end_line, !.target = target])

\* file.as_deref().unwrap_or(path)
UnwrapOr(o, d) == IF IsSome(o) THEN Unwrap(o) ELSE d

(* Parser::validate_block_target *)
\* a variant that looks a Block target's file up, not its name
validate_block_target_any_name(files_, path, block, target, keys) ==
    IF target.kind = "File"
    THEN IF Unwrap(target.file) \notin DOMAIN files_
         THEN NonExistentTarget(path, block, <<Unwrap(target.file)>>)
         ELSE Ok(<<>>)
    ELSE IF UnwrapOr(target.file, path) \notin DOMAIN files_
         THEN NonExistentTarget(path, block,
                                <<UnwrapOr(target.file, path), target.block>>)
         ELSE Ok(<<>>)

validate_block_target(files_, path, block, target, keys) ==
    IF target.kind = "File"
    THEN IF Unwrap(target.file) \notin DOMAIN files_
         THEN NonExistentTarget(path, block, <<Unwrap(target.file)>>)
         ELSE Ok(<<>>)
    ELSE IF <<UnwrapOr(target.file, path), target.block>> \notin keys
         THEN NonExistentTarget(path, block,
                                <<UnwrapOr(target.file, path), target.block>>)
         ELSE Ok(<<>>)

(* Parser::validate: files in key order, blocks and targets in file order; *)
(* the first target that fails ends the validation                         *)
RECURSIVE ValidateTargets(_, _, _, _, _)
RECURSIVE ValidateBlocks(_, _, _, _)
RECURSIVE ValidateFiles(_, _, _)

ValidateTargetsNext(files_, path, block, rest, keys, r) ==
    IF r.kind # "ok" THEN r ELSE ValidateTargets(files_, path, block, rest, keys)

ValidateTargets(files_, path, block, targets, keys) ==
    IF targets = <<>> THEN Ok(<<>>)
    ELSE ValidateTargetsNext(files_, path, block, Tail(targets), keys,
             validate_block_target(files_, path, block, Head(targets), keys))

ValidateBlocksNext(files_, path, rest, keys, r) ==
    IF r.kind # "ok" THEN r ELSE ValidateBlocks(files_, path, rest, keys)

ValidateBlocks(files_, path, blks, keys) ==
    IF blks = <<>> THEN Ok(<<>>)
    ELSE IF Head(blks).then_change.kind = "Unset"
    THEN Err([NoErr EXCEPT !.what = "unset OnChange target",
                           !.name = BlockName(Head(blks)), !.file = path,
                           !.line = Head(blks).end_line])
    ELSE ValidateBlocksNext(files_, path, Tail(blks), keys,
             ValidateTargets(files_, path, Head(blks), TargetsOf(Head(blks)), keys))

ValidateFilesNext(files_, rest, keys, r) ==
    IF r.kind # "ok" THEN r ELSE ValidateFiles(files_, rest, keys)

ValidateFiles(files_, order, keys) ==
    IF order = <<>> THEN Ok(<<>>)
    ELSE ValidateFilesNext(files_, Tail(order), keys,
             ValidateBlocks(files_, Head(order), files_[Head(order)], keys))

validate(files_) ==
    ValidateFiles(files_, SortedPaths(DOMAIN files_), on_change_blocks(files_))

\* Ok(parser) when the validation passes, its error otherwise
ParserOf(files_, r) == IF r.kind = "ok" THEN Ok(files_) ELSE r

\* the check of the provided paths: the first that is missing fails
RECURSIVE ValidateProvided(_, _)
ValidateProvided(tree, provided) ==
    IF provided = <<>> THEN Ok(<<>>)
    ELSE IF ~Exists(tree, Head(provided), FALSE)
    THEN Err([NoErr EXCEPT !.what = "does not exist", !.file = Head(provided)])
    ELSE IF Head(provided) \notin Files(tree)
    THEN Err([NoErr EXCEPT !.what = "is not a file", !.file = Head(provided)])
    ELSE ValidateProvided(tree, Tail(provided))

\* the sequences that list each element of S once
Perms(S) ==
    {s \in [1..Cardinality(S) -> S] : \A x \in S : \E i \in 1..Cardinality(S) : s[i] = x}

(* Parser::from_directory: every walked path is parsed; a scan error is    *)
(* unwrapped                                                               *)
DirectoryFiles(tree, walked) == [p \in walked |-> FileParse(tree, p).val.blocks]

from_directory(tree, walked) ==
    IF \E p \in walked : FileParse(tree, p).kind # "ok"
    THEN Panic("called unwrap on Err")
    ELSE ParserOf(DirectoryFiles(tree, walked),
                  validate(DirectoryFiles(tree, walked)))

----------------------------------------------------------------------------
(* Hunk, Line *)

AddLine(l) == [kind |-> "Add", old |-> 0, new |-> l]
RemoveLine(l) == [kind |-> "Remove", old |-> l, new |-> 0]
ContextLine(o, n) == [kind |-> "Context", old |-> o, new |-> n]

\* the lines of a hunk, numbered as the diff numbers them
RECURSIVE HunkLines(_, _, _)
HunkLines(origins, old, new) ==
    IF origins = <<>> THEN <<>>
    ELSE IF Head(origins) = "+"
    THEN <<AddLine(new)>> \o HunkLines(Tail(origins), old, new + 1)
    ELSE IF Head(origins) = "-"
    THEN <<RemoveLine(old)>> \o HunkLines(Tail(origins), old + 1, new)
    ELSE <<ContextLine(old, new)>> \o HunkLines(Tail(origins), old + 1, new + 1)

\* Hunk::from(DiffHunk), with the lines pushed; new_start is a line of the
\* file, at least 1, so the u32 subtraction does not wrap
Hunk(origins, old_start, new_start) ==
    [lines |-> HunkLines(origins, old_start, new_start),
     start_line |-> new_start,
     end_line |-> new_start
                  + Cardinality({i \in 1..Len(origins) : origins[i] # "-"}) - 1]

(* Hunk::from on the header alone.  A u32 is written as its two 16-bit     *)
(* halves <<high, low>>.                                                   *)

U32Half == 65536

u32(n) == <<n \div U32Half, n % U32Half>>
U32Max == <<U32Half - 1, U32Half - 1>>
U32Le(a, b) == a[1] < b[1] \/ (a[1] = b[1] /\ a[2] <= b[2])

\* a - 1 in an unsigned type: with overflow checks the subtraction panics at
\* zero, without them it wraps to the largest value
SubOne(sum, overflow_checks) ==
    IF sum >= 1 THEN Ok(u32(sum - 1))
    ELSE IF overflow_checks THEN Panic("attempt to subtract with overflow")
    ELSE Ok(U32Max)

HunkOfRange(new_start, end_line) ==
    IF end_line.kind # "ok" THEN end_line
    ELSE Ok([start_line |-> u32(new_start), end_line |-> end_line.val])

\* From<DiffHunk> of git2 computes in u32; From<&patch::Hunk> of the CLI
\* computes in u64 and keeps the low 32 bits, which for a wrapped
\* subtraction are all ones as well
HunkFromHeader(backend, new_start, new_count, overflow_checks) ==
    HunkOfRange(new_start, SubOne(new_start + new_count, overflow_checks))

(* OnChangeBlock::is_hunk_overlap *)
is_hunk_overlap(b, hunk) ==
    \/ hunk.start_line >= b.start_line /\ hunk.end_line <= b.end_line
    \/ b.start_line >= hunk.start_line /\ b.end_line <= hunk.end_line
    \/ b.start_line >= hunk.start_line /\ hunk.end_line <= b.end_line
    \/ hunk.start_line >= b.start_line /\ hunk.end_line >= b.end_line

(* Hunk::is_block_overlap: the two line ranges share a line *)
is_block_overlap(hunk, start_line, end_line) ==
    hunk.start_line <= end_line /\ start_line <= hunk.end_line

(* OnChangeBlock::is_changed_by_hunk *)
RemovedInside(l, old_start_line, old_end_line) ==
    \/ /\ IsSome(old_start_line) /\ IsSome(old_end_line)
       /\ l >= Unwrap(old_start_line) /\ l <= Unwrap(old_end_line)
    \/ /\ IsSome(old_start_line) /\ ~IsSome(old_end_line)
       /\ l >= Unwrap(old_start_line)
    \/ /\ ~IsSome(old_start_line) /\ IsSome(old_end_line)
       /\ l <= Unwrap(old_end_line)

RECURSIVE ChangedByLines(_, _, _, _, _)
ChangedByLines(b, lines, old_start_line, old_end_line, lines_removed) ==
    IF lines = <<>>
    THEN \E i \in 1..Len(lines_removed) :
            RemovedInside(lines_removed[i], old_start_line, old_end_line)
    ELSE IF Head(lines).kind = "Add"
    THEN IF Head(lines).new >= b.start_line /\ Head(lines).new <= b.end_line
         THEN TRUE
         ELSE ChangedByLines(b, Tail(lines), old_start_line, old_end_line,
                             lines_removed)
    ELSE IF Head(lines).kind = "Remove"
    THEN ChangedByLines(b, Tail(lines), old_start_line, old_end_line,
                        Append(lines_removed, Head(lines).old))
    ELSE IF b.start_line = Head(lines).new
    THEN ChangedByLines(b, Tail(lines), Some(Head(lines).old), old_end_line,
                        lines_removed)
    ELSE IF b.end_line = Head(lines).new
    THEN ChangedByLines(b, Tail(lines), old_start_line, Some(Head(lines).old),
                        lines_removed)
    ELSE ChangedByLines(b, Tail(lines), old_start_line, old_end_line,
                        lines_removed)

is_changed_by_hunk(b, hunk) == ChangedByLines(b, hunk.lines, None, None, <<>>)

(* The hunk of git/cli.rs: the changed lines found with running counters   *)

\* u32::abs_diff
abs_diff(a, b) == IF a >= b THEN a - b ELSE b - a

\* Cli::get_staged_hunks: the loop over h.lines; changed_lines as a set
RECURSIVE ChangedLines(_, _, _, _, _)
ChangedLines(kinds, old_line, new_line, num_added, num_removed) ==
    IF kinds = <<>> THEN {}
    ELSE IF Head(kinds) = "Add"
    THEN {new_line} \cup ChangedLines(Tail(kinds), old_line, new_line + 1,
                                      num_added + 1, num_removed)
    ELSE IF Head(kinds) = "Remove"
    THEN ChangedLines(Tail(kinds), old_line + 1, new_line, num_added,
                      num_removed + 1)
    ELSE (IF abs_diff(old_line, new_line) # abs_diff(num_added, num_removed)
          THEN {new_line} ELSE {})
         \cup ChangedLines(Tail(kinds), old_line + 1, new_line + 1,
                           num_added, num_removed)

\* h.old_range.start: the old number of the first line that has one
OldStart(hunk) ==
    IF \E i \in 1..Len(hunk.lines) : hunk.lines[i].kind # "Add"
    THEN hunk.lines[MinOf({i \in 1..Len(hunk.lines) :
                              hunk.lines[i].kind # "Add"})].old
    ELSE hunk.start_line

\* the changed_lines of the hunk that Cli::get_staged_hunks builds from the
\* same diff
changed_lines(hunk) ==
    ChangedLines([i \in 1..Len(hunk.lines) |-> hunk.lines[i].kind],
                 OldStart(hunk), hunk.start_line, 0, 0)

\* Hunk::is_line_changed_within
is_line_changed_within(lines_changed, start, end) ==
    \E line \in lines_changed : line > start /\ line < end

\* variant: the blocks of the hunk at hand replace those of the hunks before
find_changed_blocks_last_hunk(hunk, blks, changed) ==
    {i \in 1..Len(blks) :
        /\ is_block_overlap(hunk, blks[i].start_line, blks[i].end_line)
        /\ is_changed_by_hunk(blks[i], hunk)}

(* Parser::find_changed_blocks, one hunk: the blocks it overlaps and       *)
(* changes join changed_blocks                                             *)
find_changed_blocks(hunk, blks, changed) ==
    changed \cup
    {i \in 1..Len(blks) :
        /\ is_block_overlap(hunk, blks[i].start_line, blks[i].end_line)
        /\ i \notin changed
        /\ is_changed_by_hunk(blks[i], hunk)}

----------------------------------------------------------------------------
(* Parser::validate_changed_files_and_blocks *)

\* variant: only the first block of the file is compared
get_block_in_file_first(files_, path, block_name) ==
    IF path \notin DOMAIN files_ THEN None
    ELSE IF files_[path] # <<>> /\ BlockName(files_[path][1]) = block_name
    THEN Some(files_[path][1])
    ELSE None

\* Parser::get_block_in_file
get_block_in_file(files_, path, block_name) ==
    IF path \notin DOMAIN files_ THEN None
    ELSE IF \E i \in 1..Len(files_[path]) : BlockName(files_[path][i]) = block_name
    THEN Some(files_[path][MinOf({i \in 1..Len(files_[path]) :
                                     BlockName(files_[path][i]) = block_name})])
    ELSE None

OnChangeViolation(block, target_file, target_block) ==
    [block |-> block, target_file |-> target_file, target_block |-> target_block]

\* the violation of a Block target, whose block is looked up and expected
BlockViolation(block, target_file, found) ==
    IF found = None THEN Panic("block should exist")
    ELSE Ok(<<OnChangeViolation(block, target_file, found)>>)

\* what one target of a changed block adds to the violations
\* a variant that passes over File targets
CheckTargetNoFiles(files_, files_chg, targetable_chg, block, t) ==
    IF t.kind = "Block"
    THEN IF <<UnwrapOr(t.file, block.file), t.block>> \notin targetable_chg
         THEN BlockViolation(block, UnwrapOr(t.file, block.file),
                  get_block_in_file(files_, UnwrapOr(t.file, block.file), t.block))
         ELSE Ok(<<>>)
    ELSE Ok(<<>>)

\* a variant that takes a Block target as met when its file is staged
CheckTargetFileOfBlock(files_, files_chg, targetable_chg, block, t) ==
    IF t.kind = "Block"
    THEN IF UnwrapOr(t.file, block.file) \notin files_chg
         THEN BlockViolation(block, UnwrapOr(t.file, block.file),
                  get_block_in_file(files_, UnwrapOr(t.file, block.file), t.block))
         ELSE Ok(<<>>)
    ELSE IF Unwrap(t.file) \notin files_chg
    THEN Ok(<<OnChangeViolation(block, Unwrap(t.file), None)>>)
    ELSE Ok(<<>>)

CheckTarget(files_, files_chg, targetable_chg, block, t) ==
    IF t.kind = "Block"
    THEN IF <<UnwrapOr(t.file, block.file), t.block>> \notin targetable_chg
         THEN BlockViolation(block, UnwrapOr(t.file, block.file),
                  get_block_in_file(files_, UnwrapOr(t.file, block.file), t.block))
         ELSE Ok(<<>>)
    ELSE IF Unwrap(t.file) \notin files_chg
    THEN Ok(<<OnChangeViolation(block, Unwrap(t.file), None)>>)
    ELSE Ok(<<>>)

RECURSIVE CheckTargets(_, _, _, _, _, _)
RECURSIVE CheckBlocks(_, _, _, _, _)

CheckTargetsNext(files_, files_chg, targetable_chg, block, rest, acc, r) ==
    IF r.kind # "ok" THEN r
    ELSE CheckTargets(files_, files_chg, targetable_chg, block, rest, acc \o r.val)

CheckTargets(files_, files_chg, targetable_chg, block, targets, acc) ==
    IF targets = <<>> THEN Ok(acc)
    ELSE CheckTargetsNext(files_, files_chg, targetable_chg, block, Tail(targets),
             acc, CheckTarget(files_, files_chg, targetable_chg, block, Head(targets)))

CheckBlocksNext(files_, files_chg, targetable_chg, rest, r) ==
    IF r.kind # "ok" THEN r
    ELSE CheckBlocks(files_, files_chg, targetable_chg, rest, r.val)

CheckBlocks(files_, files_chg, targetable_chg, blks, acc) ==
    IF blks = <<>> THEN Ok(acc)
    ELSE CheckBlocksNext(files_, files_chg, targetable_chg, Tail(blks),
             CheckTargets(files_, files_chg, targetable_chg, Head(blks),
                          TargetsOf(Head(blks)), acc))

\* every block of the parsed files, in key order
RECURSIVE AllBlocks(_, _)
AllBlocks(files_, order) ==
    IF order = <<>> THEN <<>>
    ELSE files_[Head(order)] \o AllBlocks(files_, Tail(order))

\* a variant that checks every block of the parsed files
validate_every_block(files_, files_chg, blks_chg, targetable_chg) ==
    CheckBlocks(files_, files_chg, targetable_chg,
                AllBlocks(files_, SortedPaths(DOMAIN files_)), <<>>)

validate_changed_files_and_blocks(files_, files_chg, blks_chg, targetable_chg) ==
    CheckBlocks(files_, files_chg, targetable_chg, blks_chg, <<>>)

----------------------------------------------------------------------------
(* build_then_change on its own *)

Pending == [kind |-> "pending", val |-> <<>>, err |-> NoErr]

TextAlphabet == {"a", "b", ":", ",", " "}
Texts == UNION {[1..n -> TextAlphabet] : n \in 0..MaxTextLen}

NoMarkers == <<>>
PathA == <<<<"a">>>>
PathB == <<<<"b">>>>
PathDA == <<<<"d">>, <<"a">>>>
PathDB == <<<<"d">>, <<"b">>>>
Tree(ps) == [p \in ps |-> NoMarkers]
TargetTrees == {Tree({PathA, PathB}), Tree({PathA, PathDA, PathDB})}

ScanIdle ==
    /\ matches = <<>> /\ block_stack = <<>> /\ blocks = <<>>
    /\ block_name_to_start_line = EmptyNames
    /\ scan_path = <<>> /\ scan_result = Pending

TargetsIdle ==
    /\ tc_path = <<>> /\ tc_text = <<>> /\ tc_line = 0 /\ then_change = Pending
    /\ tc_file_path = Pending

LinesIdle == ln_data = <<>> /\ ln_pos = 0 /\ ln_map = <<>> /\ ln_line = Pending
HeaderIdle == hd_backend = "none" /\ hd_start = 0 /\ hd_count = 0 /\ hd_hunk = Pending
FnIdle == LinesIdle /\ staged_hunks = <<>> /\ HeaderIdle

DirIdle == workers = <<>> /\ file_items = <<>>

HunkIdle ==
    /\ hk_block = <<>> /\ hk_hunk = <<>> /\ hk_changed = "idle"
    /\ hk_overlap = "idle" /\ hk_event = "idle"

hk_vars == <<hk_block, hk_hunk, hk_changed, hk_overlap, hk_event>>
scan_vars == <<matches, block_stack, blocks, block_name_to_start_line,
               scan_path, scan_result>>
tc_vars == <<tc_path, tc_text, tc_line, then_change, tc_file_path>>
cli_vars == <<quiet, exit_code, stderr, shown>>
main_vars == <<mode, paths, pc, file_stack, files, parser, hunk_todo,
               hunks_seen, changed_blocks,
               files_changed, blocks_changed, targetable_blocks_changed,
               violations, scanned, cli_vars>>
dir_vars == <<workers, file_items>>
hd_vars == <<hd_backend, hd_start, hd_count, hd_hunk>>
fn_vars == <<ln_data, ln_pos, ln_map, ln_line, staged_hunks, hd_vars>>
vars == <<fs, tc_vars, scan_vars, main_vars, hk_vars, dir_vars, fn_vars>>

MainIdle ==
    /\ mode = "none" /\ paths = <<>> /\ pc = "idle"
    /\ file_stack = <<>> /\ files = NoFiles /\ parser = Pending
    /\ hunk_todo = <<>> /\ hunks_seen = 0 /\ changed_blocks = {}
    /\ files_changed = {} /\ blocks_changed = <<>>
    /\ targetable_blocks_changed = {} /\ violations = Pending
    /\ scanned = <<>>
    /\ quiet = FALSE /\ exit_code = -1 /\ stderr = "" /\ shown = <<>>

InitTargets ==
    /\ fs \in TargetTrees
    /\ tc_path \in Files(fs)
    /\ tc_text \in Texts
    /\ tc_line \in 1..2
    /\ then_change = Pending
    /\ tc_file_path = Pending
    /\ ScanIdle
    /\ MainIdle
    /\ DirIdle
    /\ FnIdle
    /\ HunkIdle

BuildThenChange ==
    /\ then_change = Pending
    /\ then_change' = build_then_change(fs, tc_path, tc_text, tc_line)
    /\ UNCHANGED <<fs, tc_path, tc_text, tc_line, tc_file_path, scan_vars, main_vars, dir_vars, fn_vars, hk_vars>>

NextTargets == BuildThenChange

SpecTargets == InitTargets /\ [][NextTargets]_vars

----------------------------------------------------------------------------
(* parse_then_target_file_path on its own.  The target text is drawn as a  *)
(* list of segments written with "/" between them; an empty segment gives  *)
(* a leading "/", a "//" or a trailing "/".                                *)

PathSegs == {<<>>, <<".">>, <<".", ".">>, <<"a">>, <<"b">>, <<"d">>}

RECURSIVE JoinSegs(_)
JoinSegs(segs) ==
    IF segs = <<>> THEN <<>>
    ELSE IF Len(segs) = 1 THEN segs[1]
    ELSE segs[1] \o <<"/">> \o JoinSegs(Tail(segs))

PathTexts == {JoinSegs(segs) : segs \in UNION {[1..n -> PathSegs] : n \in 0..MaxSegs}}

PathDDA == <<<<"d">>, <<"d">>, <<"a">>>>
PathDDDA == <<<<"d">>, <<"d">>, <<"d">>, <<"a">>>>
PathTrees == {Tree({PathA, PathB, PathDA, PathDB}),
              Tree({PathA, PathDA, PathDDA, PathDDDA})}

InitPath ==
    /\ fs \in PathTrees
    /\ tc_path \in Files(fs)
    /\ tc_text \in PathTexts
    /\ tc_line \in 1..2
    /\ then_change = Pending
    /\ tc_file_path = Pending
    /\ ScanIdle
    /\ MainIdle
    /\ DirIdle
    /\ FnIdle
    /\ HunkIdle

ParseThenTargetFilePath ==
    /\ tc_file_path = Pending
    /\ tc_file_path' = parse_then_target_file_path(fs, tc_path, tc_text, tc_line)
    /\ UNCHANGED <<fs, tc_path, tc_text, tc_line, then_change, scan_vars, main_vars, dir_vars, fn_vars, hk_vars>>

NextPath == ParseThenTargetFilePath

SpecPath == InitPath /\ [][NextPath]_vars

----------------------------------------------------------------------------
(* parse_internal on its own, one marker at a time.  The file's markers are *)
(* read in byte order, so their lines never decrease; two markers may share *)
(* a line.                                                                  *)

ScanTree == Tree({PathF, PathG})
ScanNames == {<<>>, <<"a">>, <<"b">>}
ScanTexts == {<<>>, <<":", "a">>, <<"z">>}
Gaps == {0, 1}

LastLine == IF matches = <<>> THEN 1 ELSE matches[Len(matches)].line

InitScan ==
    /\ fs = ScanTree
    /\ scan_path = PathF
    /\ matches = <<>>
    /\ block_stack = <<>>
    /\ blocks = <<>>
    /\ block_name_to_start_line = EmptyNames
    /\ scan_result = Pending
    /\ TargetsIdle
    /\ MainIdle
    /\ DirIdle
    /\ FnIdle
    /\ HunkIdle

\* the "?" after handle_on_change
OnChangeDone(r) ==
    IF r.kind = "ok"
    THEN /\ block_name_to_start_line' = r.val.names
         /\ block_stack' = r.val.stack
         /\ UNCHANGED scan_result
    ELSE /\ scan_result' = r
         /\ UNCHANGED <<block_name_to_start_line, block_stack>>

\* the "?" after handle_then_change, and blocks.push(block)
ThenChangeDone(r) ==
    IF r.kind = "ok"
    THEN /\ blocks' = Append(blocks, r.val.block)
         /\ block_stack' = r.val.stack
         /\ UNCHANGED scan_result
    ELSE /\ scan_result' = r
         /\ UNCHANGED <<blocks, block_stack>>

ScanOnChange ==
    /\ scan_result = Pending
    /\ Len(matches) < MaxMarkers
    /\ \E parsed \in ScanNames, gap \in Gaps :
         /\ matches' = Append(matches, OnChangeMatch(parsed, LastLine + gap))
         /\ OnChangeDone(handle_on_change(scan_path, parsed, LastLine + gap,
                                          block_name_to_start_line, block_stack))
    /\ UNCHANGED <<fs, tc_vars, main_vars, dir_vars, fn_vars, blocks, scan_path, hk_vars>>

ScanThenChange ==
    /\ scan_result = Pending
    /\ Len(matches) < MaxMarkers
    /\ \E parsed \in ScanTexts, gap \in Gaps :
         /\ matches' = Append(matches, ThenChangeMatch(parsed, LastLine + gap))
         /\ ThenChangeDone(handle_then_change(fs, scan_path, parsed,
                                              LastLine + gap, block_stack))
    /\ UNCHANGED <<fs, tc_vars, main_vars, dir_vars, fn_vars, block_name_to_start_line, scan_path, hk_vars>>

ScanEof ==
    /\ scan_result = Pending
    /\ scan_result' = parse_internal_eof(scan_path, block_stack, blocks)
    /\ UNCHANGED <<fs, tc_vars, main_vars, dir_vars, fn_vars, matches, block_stack, blocks,
                   block_name_to_start_line, scan_path, hk_vars>>

NextScan == ScanOnChange \/ ScanThenChange \/ ScanEof

SpecScan == InitScan /\ [][NextScan]_vars

----------------------------------------------------------------------------
(* find_changed_blocks on its own: one block of a file against one staged  *)
(* hunk of that file.  A hunk is a run of lines from its first to its last *)
(* added or removed line, with context lines before and after it, numbered *)
(* from its old and new start lines.                                       *)

DiffBodies ==
    {o \in UNION {[1..n -> {"+", "-", " "}] : n \in 1..MaxDiffLines} :
        o[1] # " " /\ o[Len(o)] # " "}
ContextRun(k) == [i \in 1..k |-> " "]
DiffOrigins ==
    {ContextRun(a) \o o \o ContextRun(b) :
        <<a, o, b>> \in (0..MaxContext) \X DiffBodies \X (0..MaxContext)}
DiffHunks ==
    {Hunk(o, n + s, n) : <<o, n, s>> \in
        {t \in DiffOrigins \X (1..MaxBlockEnd) \X ((0 - MaxShift)..MaxShift) :
            t[2] + t[3] >= 1}}
HunkBlocks ==
    {OnChangeBlock(PathF, Some(<<"a">>), s, e, NoTarget) :
        <<s, e>> \in {t \in (1..MaxBlockEnd) \X (1..MaxBlockEnd) : t[1] <= t[2]}}

InitHunk ==
    /\ fs = ScanTree
    /\ hk_block \in HunkBlocks
    /\ hk_hunk \in DiffHunks
    /\ hk_changed = "idle"
    /\ hk_overlap = "idle"
    /\ hk_event = "idle"
    /\ TargetsIdle
    /\ ScanIdle
    /\ MainIdle
    /\ DirIdle
    /\ FnIdle

FindChanged ==
    /\ hk_changed = "idle"
    /\ hk_changed' = IF find_changed_blocks(hk_hunk, <<hk_block>>, {}) = {1}
                     THEN "changed" ELSE "unchanged"
    /\ UNCHANGED <<fs, tc_vars, scan_vars, main_vars, dir_vars, fn_vars, hk_block, hk_hunk, hk_overlap, hk_event>>

\* filter_unchanged_blocks: the fast path, for the block and the hunk
HunkOverlap ==
    /\ hk_overlap = "idle"
    /\ hk_overlap' = IF is_hunk_overlap(hk_block, hk_hunk)
                     THEN "overlap" ELSE "disjoint"
    /\ UNCHANGED <<fs, tc_vars, scan_vars, main_vars, dir_vars, fn_vars, hk_block, hk_hunk, hk_changed,
                   hk_event>>

\* the same block against the hunk that git/cli.rs builds from the same diff
LineChangedWithin ==
    /\ hk_changed # "idle"
    /\ hk_event = "idle"
    /\ hk_event' = IF is_line_changed_within(changed_lines(hk_hunk),
                                             hk_block.start_line, hk_block.end_line)
                   THEN "changed" ELSE "unchanged"
    /\ UNCHANGED <<fs, tc_vars, scan_vars, main_vars, dir_vars, fn_vars, hk_block, hk_hunk, hk_changed,
                   hk_overlap>>

NextHunk == FindChanged \/ HunkOverlap \/ LineChangedWithin

SpecHunk == InitHunk /\ [][NextHunk]_vars

\* the steps add up to the scan of the whole file
ScanStepsAgree ==
    scan_result # Pending =>
        scan_result = ParseLoop(fs, scan_path, ScanStart, matches)

----------------------------------------------------------------------------
(* The program: Parser::from_git_repo (from_files on the staged files) or  *)
(* Parser::from_directory, then Parser::validate_git_repo in repo mode.    *)

Txt_three == <<"f", ":", "a", ",", " ", "g", ":", "a", ",", " ", "h">>

ToG == <<OnChangeMatch(<<"a">>, 1), ThenChangeMatch(<<"g", ":", "a">>, 3)>>
ToF == <<OnChangeMatch(<<"a">>, 1), ThenChangeMatch(<<"f", ":", "a">>, 3)>>
Multi == <<OnChangeMatch(<<>>, 1), ThenChangeMatch(Txt_three, 2),
           OnChangeMatch(<<"a">>, 3), ThenChangeMatch(<<>>, 4)>>
Nested == <<OnChangeMatch(<<"a">>, 1), OnChangeMatch(<<"b">>, 2),
            ThenChangeMatch(<<":", "a">>, 3), ThenChangeMatch(<<"h">>, 4)>>
Missing == <<OnChangeMatch(<<"a">>, 1), ThenChangeMatch(<<"g", ":", "b">>, 2)>>
Open == <<OnChangeMatch(<<"a">>, 1)>>

\* an unnamed block with the File target g, n times over
RECURSIVE Txt_many(_)
Txt_many(n) == IF n <= 1 THEN <<"g">> ELSE <<"g", ",">> \o Txt_many(n - 1)
Many == <<OnChangeMatch(<<>>, 1), ThenChangeMatch(Txt_many(MaxTargets), 2)>>

RepoContents == {NoMarkers, ToG, ToF, Multi, Nested, Missing, Open, Many}
RepoPaths == {PathF, PathG, PathH}

\* h is absent, or holds no marker, or holds an unclosed block
RepoTree(cf, cg, h) ==
    [p \in (IF IsSome(h) THEN RepoPaths ELSE {PathF, PathG}) |->
        IF p = PathF THEN cf ELSE IF p = PathG THEN cg ELSE Unwrap(h)]
\* g holds an unnamed block and, after it, a block with the name that
\* OnChangeBlock::name gives to unnamed blocks; f targets that name
ToUnnamed == <<OnChangeMatch(<<"a">>, 1), ThenChangeMatch(<<"g", ":">> \o UNNAMED, 2)>>
Unnamed == <<OnChangeMatch(<<>>, 1), ThenChangeMatch(<<>>, 2),
             OnChangeMatch(UNNAMED, 3), ThenChangeMatch(<<>>, 4)>>

RepoTrees == {RepoTree(cf, cg, h) : cf \in RepoContents, cg \in RepoContents,
                                    h \in {None, Some(NoMarkers), Some(Open)}}
             \cup {RepoTree(ToUnnamed, Unnamed, None)}

\* the staged hunks of one file
Origins == UNION {[1..n -> {"+", "-", " "}] : n \in 1..MaxHunkLines}
Hunks ==
    {Hunk(o, n + s, n) : <<o, n, s>> \in
        {t \in Origins \X (1..MaxLine) \X ((0 - MaxShift)..MaxShift) :
            t[2] + t[3] >= 1}}

Init ==
    /\ fs \in RepoTrees
    /\ mode \in {"repo", "directory"}
    /\ paths \in {SortedPaths(S) :
                    S \in SUBSET (IF mode = "repo" THEN RepoPaths ELSE Files(fs))}
    /\ pc = "start"
    /\ file_stack = <<>>
    /\ files = NoFiles
    /\ parser = Pending
    /\ hunk_todo = <<>>
    /\ hunks_seen = 0
    /\ changed_blocks = {}
    /\ files_changed = {}
    /\ blocks_changed = <<>>
    /\ targetable_blocks_changed = {}
    /\ violations = Pending
    /\ scanned = <<>>
    /\ quiet \in BOOLEAN
    /\ exit_code = -1
    /\ stderr = ""
    /\ shown = <<>>
    /\ TargetsIdle
    /\ ScanIdle
    /\ HunkIdle
    /\ DirIdle
    /\ FnIdle

\* the construction ends before the validation, with an error or a panic
Failed(r) ==
    /\ parser' = r
    /\ pc' = "failed"

\* the construction ends with the result of the validation
Built(r) ==
    /\ parser' = r
    /\ pc' = IF r.kind = "ok" THEN "built" ELSE "invalid"

\* from_files: the provided paths are checked, then stacked
ProvidedChecked(r) ==
    IF r.kind # "ok"
    THEN Failed(r) /\ UNCHANGED file_stack
    ELSE file_stack' = paths /\ pc' = "parsing" /\ UNCHANGED parser

FromFilesStart ==
    /\ pc = "start"
    /\ mode = "repo"
    /\ ProvidedChecked(ValidateProvided(fs, paths))
    /\ UNCHANGED <<fs, mode, paths, files, hunk_todo, hunks_seen,
                   changed_blocks, files_changed, blocks_changed, targetable_blocks_changed, violations,
                   tc_vars, scan_vars, hk_vars, dir_vars, fn_vars, cli_vars, scanned>>

\* File::parse of every path in every tree of the model: a file's contents do
\* not change during a run, so its scan is a function of the tree and the path
RepoFileParse == [tree \in RepoTrees |-> [p \in RepoPaths |-> FileParse(tree, p)]]

\* the loop of from_files when every HashSet is read in the order of the paths
RECURSIVE WorklistInOrder(_, _, _)
RECURSIVE WorklistInOrderNext(_, _, _, _, _)

WorklistInOrderNext(tree, path, rest, files_, r) ==
    IF r.kind # "ok" THEN r
    ELSE WorklistInOrder(
             tree,
             rest \o SortedPaths(r.val.files_to_parse \ (DOMAIN files_ \cup {path})),
             Insert(files_, path, r.val.blocks))

WorklistInOrder(tree, stack, files_) ==
    IF stack = <<>> THEN ParserOf(files_, validate(files_))
    ELSE WorklistInOrderNext(tree, stack[Len(stack)],
                             SubSeq(stack, 1, Len(stack) - 1), files_,
                             RepoFileParse[tree][stack[Len(stack)]])

\* Parser::from_files as one function, for that order
from_files_in_order(tree, provided) ==
    IF ValidateProvided(tree, provided).kind # "ok"
    THEN ValidateProvided(tree, provided)
    ELSE WorklistInOrder(tree, provided, NoFiles)

\* from_files: one turn of the "while let Some(path) = file_stack.pop()" loop
FileParsed(path, rest, r) ==
    IF r.kind # "ok"
    THEN Failed(r) /\ file_stack' = rest /\ UNCHANGED files
    ELSE \E pushed \in Perms(r.val.files_to_parse \ (DOMAIN files \cup {path})) :
            /\ files' = Insert(files, path, r.val.blocks)
            /\ file_stack' = rest \o pushed
            /\ UNCHANGED <<parser, pc>>

FromFilesParse ==
    /\ pc = "parsing"
    /\ file_stack # <<>>
    /\ FileParsed(file_stack[Len(file_stack)],
                  SubSeq(file_stack, 1, Len(file_stack) - 1),
                  RepoFileParse[fs][file_stack[Len(file_stack)]])
    /\ scanned' = Append(scanned, file_stack[Len(file_stack)])
    /\ UNCHANGED <<fs, mode, paths, hunk_todo, hunks_seen,
                   changed_blocks, files_changed, blocks_changed, targetable_blocks_changed, violations,
                   tc_vars, scan_vars, hk_vars, dir_vars, fn_vars, cli_vars>>

\* from_files: the stack is empty, the parser is validated
FromFilesValidate ==
    /\ pc = "parsing"
    /\ file_stack = <<>>
    /\ Built(ParserOf(files, validate(files)))
    /\ UNCHANGED <<fs, mode, paths, file_stack, files, hunk_todo, hunks_seen,
                   changed_blocks, files_changed, blocks_changed, targetable_blocks_changed, violations,
                   tc_vars, scan_vars, hk_vars, dir_vars, fn_vars, cli_vars, scanned>>

DirectoryBuilt(r) ==
    IF r.kind = "panic"
    THEN Failed(r) /\ UNCHANGED files
    ELSE Built(r) /\ files' = DirectoryFiles(fs, Range(paths))

FromDirectory ==
    /\ pc = "start"
    /\ mode = "directory"
    /\ DirectoryBuilt(from_directory(fs, Range(paths)))
    /\ UNCHANGED <<fs, mode, paths, file_stack, hunk_todo, hunks_seen,
                   changed_blocks, files_changed, blocks_changed, targetable_blocks_changed, violations,
                   tc_vars, scan_vars, hk_vars, dir_vars, fn_vars, cli_vars, scanned>>

\* validate_git_repo: the staged files, and the files that have staged hunks
ValidateGitRepoStart ==
    /\ pc = "built"
    /\ mode = "repo"
    /\ quiet \/ DOMAIN files # {}
    /\ IF DOMAIN files = {}
       THEN /\ violations' = Ok(<<>>)
            /\ pc' = "validated"
            /\ UNCHANGED <<hunk_todo, files_changed>>
       ELSE /\ \E with_hunks \in SUBSET Range(paths) :
                 hunk_todo' = SortedPaths(with_hunks)
            /\ files_changed' = Range(paths)
            /\ pc' = "finding"
            /\ UNCHANGED violations
    /\ UNCHANGED <<fs, mode, paths, file_stack, files, parser, hunks_seen,
                   changed_blocks, blocks_changed, targetable_blocks_changed,
                   tc_vars, scan_vars, hk_vars, dir_vars, fn_vars, cli_vars, scanned>>

\* find_changed_blocks: the next hunk of the file at hand against its blocks
FindInHunk ==
    /\ pc = "finding"
    /\ hunk_todo # <<>>
    /\ Head(hunk_todo) \in DOMAIN files
    /\ hunks_seen < MaxHunks
    /\ \E hunk \in Hunks :
          changed_blocks' =
              find_changed_blocks(hunk, files[Head(hunk_todo)], changed_blocks)
    /\ hunks_seen' = hunks_seen + 1
    /\ UNCHANGED <<fs, mode, paths, pc, file_stack, files, parser, hunk_todo,
                   files_changed, blocks_changed, targetable_blocks_changed,
                   violations, tc_vars, scan_vars, hk_vars, dir_vars, fn_vars, cli_vars, scanned>>

\* validate_git_repo: one turn of the loop over staged_hunks; a file the
\* parser does not hold is passed over; the changed blocks come out of a
\* HashSet, in any order
ChangedFound(path, changed) ==
    /\ blocks_changed' =
          blocks_changed \o [i \in 1..Len(changed) |-> files[path][changed[i]]]
    /\ targetable_blocks_changed' =
          targetable_blocks_changed \cup
          {<<path, BlockName(files[path][i])>> :
              i \in {j \in Range(changed) : IsTargetable(files[path][j])}}

FindChangedBlocks ==
    /\ pc = "finding"
    /\ hunk_todo # <<>>
    /\ IF Head(hunk_todo) \notin DOMAIN files
       THEN UNCHANGED <<blocks_changed, targetable_blocks_changed>>
       ELSE /\ hunks_seen >= 1
            /\ \E changed \in Perms(changed_blocks) :
                  ChangedFound(Head(hunk_todo), changed)
    /\ hunk_todo' = Tail(hunk_todo)
    /\ hunks_seen' = 0
    /\ changed_blocks' = {}
    /\ UNCHANGED <<fs, mode, paths, pc, file_stack, files, parser, files_changed,
                   violations, tc_vars, scan_vars, hk_vars, dir_vars, fn_vars, cli_vars, scanned>>

\* validate_git_repo: the changed blocks are checked against their targets
ValidateChanged ==
    /\ pc = "finding"
    /\ hunk_todo = <<>>
    /\ violations' = validate_changed_files_and_blocks(
                         files, files_changed, blocks_changed,
                         targetable_blocks_changed)
    /\ pc' = "validated"
    /\ UNCHANGED <<fs, mode, paths, file_stack, files, parser, hunk_todo,
                   hunks_seen, changed_blocks, files_changed, blocks_changed,
                   targetable_blocks_changed, tc_vars, scan_vars, hk_vars, dir_vars, fn_vars, cli_vars, scanned>>

(* main: the exit code.  A panic ends the process with the code 101 of   *)
(* the Rust runtime.                                                       *)

\* the first violations, those main prints
Take(s, n) == SubSeq(s, 1, IF Len(s) < n THEN Len(s) ELSE n)

\* "if let Err(e) = parser": parsing failed, the error goes to stderr
ExitParsingFailed(r) == IF r.kind = "panic" THEN 101 ELSE 1

\* variant: a failed construction is reported and the process ends normally
ExitParsingFailedZero(r) == IF r.kind = "panic" THEN 101 ELSE 0

\* variant: violations are printed and the process ends normally
ExitValidatedZero(v) == IF v.kind = "panic" THEN 101 ELSE IF v.kind = "err" THEN 1 ELSE 0

\* the exit code after validate_git_repo
ExitValidated(v) ==
    IF v.kind = "panic" THEN 101
    ELSE IF v.kind = "err" THEN 1
    ELSE IF Len(v.val) # 0 THEN 1
    ELSE 0

MainParsingFailed ==
    /\ pc \in {"invalid", "failed"}
    /\ exit_code = -1
    /\ exit_code' = ExitParsingFailed(parser)
    /\ stderr' = IF parser.kind = "panic" THEN "panicked" ELSE "Parsing failed"
    /\ UNCHANGED <<fs, pc, mode, paths, file_stack, files, parser, hunk_todo,
                   hunks_seen, changed_blocks, files_changed, blocks_changed,
                   targetable_blocks_changed, violations, quiet, shown,
                   scanned, tc_vars, scan_vars, hk_vars, dir_vars, fn_vars>>

\* directory mode, and repo mode with nothing parsed unless --quiet is given:
\* main returns without validate_git_repo
MainOk ==
    /\ pc = "built"
    /\ exit_code = -1
    /\ mode = "directory" \/ (~quiet /\ DOMAIN files = {})
    /\ exit_code' = 0
    /\ UNCHANGED <<fs, pc, mode, paths, file_stack, files, parser, hunk_todo,
                   hunks_seen, changed_blocks, files_changed, blocks_changed,
                   targetable_blocks_changed, violations, quiet, stderr, shown,
                   scanned, tc_vars, scan_vars, hk_vars, dir_vars, fn_vars>>

\* repo mode: the violations are printed, the first of them, and decide the code
MainValidated ==
    /\ pc = "validated"
    /\ exit_code = -1
    /\ exit_code' = ExitValidated(violations)
    /\ stderr' = IF violations.kind = "panic" THEN "panicked"
                 ELSE IF violations.val # <<>> THEN "Violations:" ELSE ""
    /\ shown' = IF violations.kind = "ok"
                THEN Take(violations.val, DEFAULT_MAX_VIOLATIONS_TO_DISPLAY)
                ELSE <<>>
    /\ UNCHANGED <<fs, pc, mode, paths, file_stack, files, parser, hunk_todo,
                   hunks_seen, changed_blocks, files_changed, blocks_changed,
                   targetable_blocks_changed, violations, quiet, scanned,
                   tc_vars, scan_vars, hk_vars, dir_vars, fn_vars>>

Next ==
    \/ FromFilesStart
    \/ FromFilesParse
    \/ FromFilesValidate
    \/ FromDirectory
    \/ ValidateGitRepoStart
    \/ FindInHunk
    \/ FindChangedBlocks
    \/ ValidateChanged
    \/ MainParsingFailed
    \/ MainOk
    \/ MainValidated

Spec == Init /\ [][Next]_vars

\* from_files is sequential code: while one of its steps is possible, it is taken
SpecFair ==
    Spec /\ WF_vars(FromFilesStart) /\ WF_vars(FromFilesParse)
         /\ WF_vars(FromFilesValidate)

----------------------------------------------------------------------------
(* validate_git_repo on one staged file with several hunks.  The hunks of  *)
(* a file are in line order with at least one unchanged line between two   *)
(* of them; the old start of a hunk follows from the lines the hunks       *)
(* before it added and removed.                                            *)

\* lines added less lines removed
Delta(o) ==
    Cardinality({i \in 1..Len(o) : o[i] = "+"})
    - Cardinality({i \in 1..Len(o) : o[i] = "-"})

NextHunks(o1, h1) ==
    {Hunk(o, n - Delta(o1), n) : <<o, n>> \in
        {t \in Origins \X (1..MaxBlockEnd) :
            t[2] > h1.end_line + 1 /\ t[2] > h1.start_line}}
StagedHunkLists ==
    UNION {{<<Hunk(o, n, n)>>} \cup
           (IF MaxStaged >= 2
            THEN {<<Hunk(o, n, n), h2>> : h2 \in NextHunks(o, Hunk(o, n, n))}
            ELSE {}) :
           <<o, n>> \in Origins \X (1..MaxBlockEnd)}

ToFileG == Targets(<<FileTarget(PathG)>>)
StagedBlockLists ==
    {<<OnChangeBlock(PathF, Some(<<"a">>), t[1], t[2], ToFileG)>> :
        t \in (1..2) \X (4..MaxBlockEnd)}
    \cup
    {<<OnChangeBlock(PathF, Some(<<"a">>), 1, t[1], ToFileG),
       OnChangeBlock(PathF, Some(<<"b">>), t[2], MaxBlockEnd, ToFileG)>> :
        t \in {u \in (2..4) \X (3..6) : u[1] < u[2]}}

InitStaged ==
    /\ fs = ScanTree
    /\ mode = "repo"
    /\ paths = <<PathF>>
    /\ pc = "finding"
    /\ file_stack = <<>>
    /\ files \in {[p \in {PathF, PathG} |-> IF p = PathF THEN blks ELSE <<>>] :
                     blks \in StagedBlockLists}
    /\ parser = Ok(files)
    /\ hunk_todo = <<PathF>>
    /\ staged_hunks \in StagedHunkLists
    /\ hunks_seen = 0
    /\ changed_blocks = {}
    /\ files_changed = {PathF}
    /\ blocks_changed = <<>>
    /\ targetable_blocks_changed = {}
    /\ violations = Pending
    /\ scanned = <<>>
    /\ quiet = FALSE /\ exit_code = -1 /\ stderr = "" /\ shown = <<>>
    /\ LinesIdle
    /\ HeaderIdle
    /\ TargetsIdle
    /\ ScanIdle
    /\ DirIdle
    /\ HunkIdle

\* find_changed_blocks: the next hunk of the file against its blocks
StagedFindInHunk ==
    /\ pc = "finding"
    /\ hunk_todo # <<>>
    /\ hunks_seen < Len(staged_hunks)
    /\ changed_blocks' =
          find_changed_blocks(staged_hunks[hunks_seen + 1], files[Head(hunk_todo)],
                              changed_blocks)
    /\ hunks_seen' = hunks_seen + 1
    /\ UNCHANGED <<fs, mode, paths, pc, file_stack, files, parser, hunk_todo,
                   files_changed, blocks_changed, targetable_blocks_changed,
                   violations, tc_vars, scan_vars, hk_vars, dir_vars, fn_vars,
                   cli_vars, scanned>>

\* the changed blocks of the file are pushed, in the order of the HashSet
StagedFindChangedBlocks ==
    /\ pc = "finding"
    /\ hunk_todo # <<>>
    /\ hunks_seen = Len(staged_hunks)
    /\ \E changed \in Perms(changed_blocks) :
          ChangedFound(Head(hunk_todo), changed)
    /\ hunk_todo' = Tail(hunk_todo)
    /\ UNCHANGED <<fs, mode, paths, pc, file_stack, files, parser, files_changed,
                   hunks_seen, changed_blocks,
                   violations, tc_vars, scan_vars, hk_vars, dir_vars, fn_vars,
                   cli_vars, scanned>>

NextStaged == StagedFindInHunk \/ StagedFindChangedBlocks \/ ValidateChanged

SpecStaged == InitStaged /\ [][NextStaged]_vars

----------------------------------------------------------------------------
(* Hunk::from on the header of a hunk.  A new-file range without lines     *)
(* starts on the line before the removal, 0 at the top of the file or for  *)
(* a file left empty; a range with lines starts on line 1 or later.  The   *)
(* build decides whether an overflow is checked.                           *)

Headers ==
    {t \in (0..MaxNewStart) \X (0..MaxNewCount) : t[2] > 0 => t[1] >= 1}

InitHeader ==
    /\ fs = ScanTree
    /\ hd_backend \in {"git2", "cli"}
    /\ \E t \in Headers : hd_start = t[1] /\ hd_count = t[2]
    /\ hd_hunk = Pending
    /\ LinesIdle
    /\ staged_hunks = <<>>
    /\ TargetsIdle
    /\ ScanIdle
    /\ MainIdle
    /\ DirIdle
    /\ HunkIdle

HunkFrom ==
    /\ hd_hunk = Pending
    /\ \E overflow_checks \in BOOLEAN :
          hd_hunk' = HunkFromHeader(hd_backend, hd_start, hd_count, overflow_checks)
    /\ UNCHANGED <<fs, tc_vars, scan_vars, main_vars, hk_vars, dir_vars,
                   ln_data, ln_pos, ln_map, ln_line, staged_hunks,
                   hd_backend, hd_start, hd_count>>

NextHeader == HunkFrom

SpecHeader == InitHeader /\ [][NextHeader]_vars

----------------------------------------------------------------------------
(* byte_to_line on its own: the bytes of a file that is not empty, and a   *)
(* position inside it                                                      *)

Bytes == {"x", "\r", "\n"}
Datas == UNION {[1..n -> Bytes] : n \in 1..MaxDataLen}

InitLines ==
    /\ fs = ScanTree
    /\ ln_data \in Datas
    /\ ln_pos \in 0..(Len(ln_data) - 1)
    /\ ln_map = <<>>
    /\ ln_line = Pending
    /\ staged_hunks = <<>>
    /\ HeaderIdle
    /\ TargetsIdle
    /\ ScanIdle
    /\ MainIdle
    /\ DirIdle
    /\ HunkIdle

BuildMapping ==
    /\ ln_map = <<>>
    /\ ln_map' = build_byte_pos_to_line_mapping(ln_data)
    /\ UNCHANGED <<fs, tc_vars, scan_vars, main_vars, hk_vars, dir_vars,
                   ln_data, ln_pos, ln_line, staged_hunks, hd_vars>>

ByteToLine ==
    /\ ln_map # <<>>
    /\ ln_line = Pending
    /\ ln_line' = byte_to_line(ln_map, BinarySearch(ln_map, ln_pos, 0, Len(ln_map)))
    /\ UNCHANGED <<fs, tc_vars, scan_vars, main_vars, hk_vars, dir_vars,
                   ln_data, ln_pos, ln_map, staged_hunks, hd_vars>>

NextLines == BuildMapping \/ ByteToLine

SpecLines == InitLines /\ [][NextLines]_vars

----------------------------------------------------------------------------
(* Parser::from_directory with its worker threads: paths.par_iter() gives  *)
(* every walked file to a worker, which scans it marker by marker with     *)
(* locals of its own; collect() waits for the workers; the calling thread  *)
(* then fills the map and validates.                                       *)

DirContents == {ToG, ToF, Multi, Nested, Open}
DirTrees == {RepoTree(cf, cg, h) : cf \in DirContents, cg \in DirContents,
                                   h \in {None, Some(NoMarkers), Some(Open)}}

\* a worker before its first marker
NewWorker == [pos |-> 0, st |-> Ok(ScanStart), item |-> Pending]

\* the ".unwrap()" on the result of File::parse
Unwrapped(w, r) ==
    [w EXCEPT !.item = IF r.kind = "ok" THEN r ELSE Panic("called unwrap on Err")]

\* variant: block_name_to_start_line is one map for all the workers
WorkerStepSharedNames(tree, p, ws) ==
    IF ws[p].st.kind # "ok"
    THEN Unwrapped(ws[p], ws[p].st)
    ELSE IF ws[p].pos < Len(tree[p])
    THEN [ws[p] EXCEPT
             !.pos = @ + 1,
             !.st = parse_internal_step(
                        tree, p,
                        [ws[p].st.val EXCEPT
                            !.names = [n \in UNION {DOMAIN ws[q].st.val.names :
                                                      q \in {x \in DOMAIN ws : ws[x].st.kind = "ok"}}
                                          |-> 1]],
                        tree[p][ws[p].pos + 1])]
    ELSE Unwrapped(ws[p], FileOfBlocks(p, parse_internal_eof(
                              p, ws[p].st.val.stack, ws[p].st.val.blocks)))

\* one step of the worker that scans p: the next marker, or the end of the
\* file and the rest of File::parse
WorkerStep(tree, p, ws) ==
    IF ws[p].st.kind # "ok"
    THEN Unwrapped(ws[p], ws[p].st)
    ELSE IF ws[p].pos < Len(tree[p])
    THEN [ws[p] EXCEPT
             !.pos = @ + 1,
             !.st = parse_internal_step(tree, p, ws[p].st.val,
                                        tree[p][ws[p].pos + 1])]
    ELSE Unwrapped(ws[p], FileOfBlocks(p, parse_internal_eof(
                              p, ws[p].st.val.stack, ws[p].st.val.blocks)))

WorkerDone(w) == w.item # Pending
WorkerPanicked(w) == w.item.kind = "panic"

\* "for f in file_items { files.insert(f.path.clone(), f) }"
RECURSIVE InsertItems(_, _)
InsertItems(files_, items) ==
    IF items = <<>> THEN files_
    ELSE InsertItems(Insert(files_, Head(items).path, Head(items).blocks),
                     Tail(items))

InitDir ==
    /\ fs \in DirTrees
    /\ mode = "directory"
    /\ paths \in {SortedPaths(S) : S \in SUBSET Files(fs)}
    /\ pc = "start"
    /\ file_stack = <<>> /\ files = NoFiles /\ parser = Pending
    /\ hunk_todo = <<>> /\ hunks_seen = 0 /\ changed_blocks = {}
    /\ files_changed = {} /\ blocks_changed = <<>>
    /\ targetable_blocks_changed = {} /\ violations = Pending
    /\ scanned = <<>>
    /\ quiet = FALSE /\ exit_code = -1 /\ stderr = "" /\ shown = <<>>
    /\ DirIdle
    /\ FnIdle
    /\ TargetsIdle
    /\ ScanIdle
    /\ HunkIdle

\* paths.par_iter(): one scan per walked path
ParIter ==
    /\ pc = "start"
    /\ workers' = [p \in Range(paths) |-> NewWorker]
    /\ pc' = "scanning"
    /\ UNCHANGED <<fs, mode, paths, file_stack, files, parser, hunk_todo,
                   hunks_seen, changed_blocks, files_changed, blocks_changed,
                   targetable_blocks_changed, violations, scanned, cli_vars,
                   file_items, fn_vars, tc_vars, scan_vars, hk_vars>>

\* a worker thread takes one step of its scan
ScanWorker ==
    /\ pc = "scanning"
    /\ \E p \in DOMAIN workers :
          /\ ~WorkerDone(workers[p])
          /\ workers' = [workers EXCEPT ![p] = WorkerStep(fs, p, workers)]
    /\ UNCHANGED <<fs, mode, paths, pc, file_stack, files, parser, hunk_todo,
                   hunks_seen, changed_blocks, files_changed, blocks_changed,
                   targetable_blocks_changed, violations, scanned, cli_vars,
                   file_items, fn_vars, tc_vars, scan_vars, hk_vars>>

\* collect(): the items in the order of the paths, once every worker is
\* done; the panic of a worker is raised again in the calling thread, and
\* the scans not yet finished are given up
Collect ==
    /\ pc = "scanning"
    /\ IF \E p \in DOMAIN workers : WorkerPanicked(workers[p])
       THEN /\ Failed(Panic("called unwrap on Err"))
            /\ UNCHANGED file_items
       ELSE /\ \A p \in DOMAIN workers : WorkerDone(workers[p])
            /\ file_items' = [i \in 1..Len(paths) |-> workers[paths[i]].item.val]
            /\ pc' = "collected"
            /\ UNCHANGED parser
    /\ UNCHANGED <<fs, mode, paths, file_stack, files, hunk_todo,
                   hunks_seen, changed_blocks, files_changed, blocks_changed,
                   targetable_blocks_changed, violations, scanned, cli_vars,
                   workers, fn_vars, tc_vars, scan_vars, hk_vars>>

Merged(files_) ==
    /\ files' = files_
    /\ Built(ParserOf(files_, validate(files_)))

\* the calling thread fills the map and validates it
Merge ==
    /\ pc = "collected"
    /\ Merged(InsertItems(NoFiles, file_items))
    /\ UNCHANGED <<fs, mode, paths, file_stack, hunk_todo,
                   hunks_seen, changed_blocks, files_changed, blocks_changed,
                   targetable_blocks_changed, violations, scanned, cli_vars,
                   dir_vars, fn_vars, tc_vars, scan_vars, hk_vars>>

NextDir == ParIter \/ ScanWorker \/ Collect \/ Merge

SpecDir == InitDir /\ [][NextDir]_vars


----------------------------------------------------------------------------
(* The change validation, read off the run's inputs and results *)

StagedFiles == Range(paths)

\* the targetable blocks among the changed blocks, as (file, name)
TargetableChanged ==
    {<<b.file, Unwrap(b.name)>> : b \in {x \in Range(blocks_changed) : IsSome(x.name)}}

\* the file a target points into, seen from a block
TargetFile(b, t) == IF t.file = None THEN b.file ELSE Unwrap(t.file)

Unmet(b, t) ==
    IF t.kind = "Block"
    THEN <<TargetFile(b, t), t.block>> \notin TargetableChanged
    ELSE TargetFile(b, t) \notin StagedFiles

\* (changed block, unmet target) pairs, by position
UnmetPairs ==
    UNION {{<<i, k>> : k \in {n \in 1..Len(TargetsOf(blocks_changed[i])) :
                                Unmet(blocks_changed[i],
                                      TargetsOf(blocks_changed[i])[n])}} :
              i \in 1..Len(blocks_changed)}

\* the violation v reports the unmet target t of the changed block b
Reports(v, b, t) ==
    /\ v.block = b
    /\ v.target_file = TargetFile(b, t)
    /\ IF t.kind = "Block"
       THEN /\ IsSome(v.target_block)
            /\ Unwrap(v.target_block).file = TargetFile(b, t)
            /\ BlockName(Unwrap(v.target_block)) = t.block
       ELSE v.target_block = None

ChangesValidated == pc = "validated" /\ violations.kind = "ok"

(* C1: validate_changed_files_and_blocks returns exactly one violation per *)
(* (changed block, unmet target) pair: a Block target is unmet iff its     *)
(* (file, name), the file being the block's own when the target names      *)
(* none, is not among the changed targetable blocks; a File target is      *)
(* unmet iff its file is not staged.                                       *)
C1_OneViolationPerUnmetTarget ==
    (ChangesValidated /\ DOMAIN files # {}) =>
        /\ Len(violations.val) = Cardinality(UnmetPairs)
        /\ \A p \in UnmetPairs :
              \E j \in 1..Len(violations.val) :
                  Reports(violations.val[j], blocks_changed[p[1]],
                          TargetsOf(blocks_changed[p[1]])[p[2]])
        /\ \A j \in 1..Len(violations.val) :
              \E p \in UnmetPairs :
                  Reports(violations.val[j], blocks_changed[p[1]],
                          TargetsOf(blocks_changed[p[1]])[p[2]])

\* a changed block with three targets, one of them met: two violations, one
\* for a block and one for a file
C1_Witness ==
    /\ ChangesValidated
    /\ Len(blocks_changed) = 2
    /\ \E i \in 1..Len(blocks_changed) :
          /\ Len(TargetsOf(blocks_changed[i])) = 3
          /\ Cardinality({j \in 1..Len(violations.val) :
                             violations.val[j].block = blocks_changed[i]}) = 2
    /\ \E j \in 1..Len(violations.val) : violations.val[j].target_block = None
    /\ \E j \in 1..Len(violations.val) : violations.val[j].target_block # None

----------------------------------------------------------------------------
\* f and g each hold one block "a" whose target is the other's block
Mutual == fs[PathF] = ToG /\ fs[PathG] = ToF
OnlyChanged(path) ==
    Len(blocks_changed) = 1 /\ blocks_changed[1].file = path

(* C2: with f:a targeting g:a and g:a targeting f:a, a change of f's block *)
(* alone gives exactly one violation, whose source is f's block and whose  *)
(* target is g's block; a change of both gives none.                       *)
C2_MutualTargets ==
    (ChangesValidated /\ Mutual) =>
        /\ OnlyChanged(PathF) =>
              violations.val =
                  <<OnChangeViolation(files[PathF][1], PathG, Some(files[PathG][1]))>>
        /\ Len(blocks_changed) = 2 => violations.val = <<>>

\* only f's block changed, g staged with its block untouched
C2_Witness ==
    /\ ChangesValidated /\ Mutual
    /\ OnlyChanged(PathF)
    /\ PathG \in StagedFiles
    /\ Len(violations.val) = 1

----------------------------------------------------------------------------
----------------------------------------------------------------------------
\* the target t of a block of file p names something the file map holds
TargetPresent(p, t) ==
    IF t.kind = "File"
    THEN Unwrap(t.file) \in DOMAIN files
    ELSE /\ (IF t.file = None THEN p ELSE Unwrap(t.file)) \in DOMAIN files
         /\ \E b \in Range(files[IF t.file = None THEN p ELSE Unwrap(t.file)]) :
               b.name = Some(t.block)

\* (file, block, target) with a target the file map does not hold
BlocksOfFiles ==
    UNION {{<<p, i>> : i \in 1..Len(files[p])} : p \in DOMAIN files}
MissingTargets ==
    UNION {{<<q[1], q[2], k>> :
               k \in {n \in 1..Len(TargetsOf(files[q[1]][q[2]])) :
                         ~TargetPresent(q[1], TargetsOf(files[q[1]][q[2]])[n])}} :
              q \in BlocksOfFiles}

TargetKey(p, t) ==
    IF t.kind = "File" THEN <<Unwrap(t.file)>>
    ELSE <<IF t.file = None THEN p ELSE Unwrap(t.file), t.block>>

(* C4: a construction that succeeds (from_files or from_directory) leaves  *)
(* a file map in which every Block target names an existing targetable     *)
(* (file, name), the file being the block's own when the target names      *)
(* none, and every File target is a key; a target that misses fails the    *)
(* construction with an error naming the block and the target, and no      *)
(* parser is returned.                                                     *)
C4_TargetsExist ==
    /\ (parser.kind = "ok" =>
          /\ pc \in {"built", "finding", "validated"}
          /\ parser.val = files
          /\ MissingTargets = {})
    /\ (pc \in {"built", "invalid", "finding", "validated"} /\ MissingTargets # {} =>
          /\ pc = "invalid"
          /\ parser.kind = "err"
          /\ parser.val = <<>>
          /\ parser.err.what = "non-existent ThenChange target"
          /\ \E m \in MissingTargets :
                /\ parser.err.file = m[1]
                /\ parser.err.name = BlockName(files[m[1]][m[2]])
                /\ parser.err.line = files[m[1]][m[2]].end_line
                /\ parser.err.target =
                      TargetKey(m[1], TargetsOf(files[m[1]][m[2]])[m[3]]))
    /\ (pc = "invalid" => MissingTargets # {})

\* the target's file is in the map but holds no block of that name
C4_Witness ==
    /\ pc = "invalid"
    /\ Len(parser.err.target) = 2
    /\ parser.err.target[1] \in DOMAIN files
    /\ parser.err.target[1] # parser.err.file

----------------------------------------------------------------------------
(* The markers handled so far, read as parentheses *)

IsOn(i) == matches[i].kind = "OnChange"
NumOn(a, b) == Cardinality({i \in a..b : IsOn(i)})
NumThen(a, b) == Cardinality({i \in a..b : ~IsOn(i)})

DisplayName(data) == IF data = <<>> THEN UNNAMED ELSE data
OptionName(data) == IF data = <<>> THEN None ELSE Some(data)

\* two OnChange markers with the same non-empty name
DupPairs ==
    {p \in (1..Len(matches)) \X (1..Len(matches)) :
        /\ p[1] < p[2] /\ IsOn(p[1]) /\ IsOn(p[2])
        /\ matches[p[1]].data # <<>>
        /\ matches[p[1]].data = matches[p[2]].data}

\* the OnChange markers no later ThenChange closes
Unmatched ==
    {i \in 1..Len(matches) :
        /\ IsOn(i)
        /\ \A j \in (i + 1)..Len(matches) : NumThen(i + 1, j) <= NumOn(i + 1, j)}

\* a ThenChange with no OnChange left to close
ExcessAt(j) == ~IsOn(j) /\ NumThen(1, j) > NumOn(1, j)

\* the OnChange a ThenChange closes: the nearest one with a balanced text between
Partner(j) ==
    MaxOf({i \in 1..(j - 1) : IsOn(i) /\ NumOn(i + 1, j - 1) = NumThen(i + 1, j - 1)})

\* the k-th ThenChange marker
ThenIndex(k) == CHOOSE j \in 1..Len(matches) : ~IsOn(j) /\ NumThen(1, j) = k

ScanFinished == scan_result.kind # "pending"
ScanAtEof ==
    scan_result.kind = "ok" \/ scan_result.err.what = "reached end of file"

WellFormed ==
    /\ \A j \in 1..Len(matches) : NumThen(1, j) <= NumOn(1, j)
    /\ NumThen(1, Len(matches)) = NumOn(1, Len(matches))
    /\ DupPairs = {}
    /\ \A j \in 1..Len(matches) :
          ~IsOn(j) => build_then_change(fs, scan_path, matches[j].data,
                                        matches[j].line).kind = "ok"

\* two files that both name a block "a"
SameNameTree ==
    [p \in {PathF, PathG} |->
        <<OnChangeMatch(<<"a">>, 1), ThenChangeMatch(<<>>, 2)>>]

----------------------------------------------------------------------------
(* C5: two OnChange markers with the same non-empty name in one file fail  *)
(* the scan with a duplicate-name error citing the line of the first and   *)
(* the line of the second marker, whether the first block is closed or     *)
(* still open; unnamed markers repeat freely and a name may be reused in   *)
(* another file.                                                           *)
C5_DuplicateName ==
    /\ \A p \in DupPairs :
          /\ scan_result.kind = "err"
          /\ scan_result.err.what = "duplicate block name"
          /\ scan_result.err.name = matches[p[1]].data
          /\ scan_result.err.file = scan_path
          /\ scan_result.err.line = matches[p[1]].line
          /\ scan_result.err.line2 = matches[p[2]].line
    /\ (scan_result.err.what = "duplicate block name" => DupPairs # {})
    /\ parse_internal(SameNameTree, PathF).kind = "ok"
    /\ parse_internal(SameNameTree, PathG).kind = "ok"

\* a duplicate found after the first block of that name was closed, with an
\* unnamed block repeated before it
C5_Witness ==
    /\ scan_result.err.what = "duplicate block name"
    /\ \E k \in 1..Len(blocks) : blocks[k].name = Some(scan_result.err.name)
    /\ scan_result.err.line < scan_result.err.line2

----------------------------------------------------------------------------
(* C6: at end of file, an OnChange left without its ThenChange fails the   *)
(* scan with an unclosed-block error naming the innermost open block and   *)
(* its start line, and no block list is returned.                          *)
C6_UnclosedBlock ==
    /\ (scan_result.kind = "ok" => Unmatched = {})
    /\ (scan_result.err.what = "reached end of file" => Unmatched # {})
    /\ (ScanAtEof /\ Unmatched # {} =>
          /\ scan_result.kind = "err"
          /\ scan_result.err.what = "reached end of file"
          /\ scan_result.err.file = scan_path
          /\ scan_result.err.name = DisplayName(matches[MaxOf(Unmatched)].data)
          /\ scan_result.err.line = matches[MaxOf(Unmatched)].line
          /\ scan_result.val = <<>>)

\* two blocks open at end of file, on different lines, one block closed before
C6_Witness ==
    /\ scan_result.err.what = "reached end of file"
    /\ Len(block_stack) = 2
    /\ block_stack[1].start_line < block_stack[2].start_line
    /\ scan_result.err.line = block_stack[2].start_line
    /\ blocks # <<>>

----------------------------------------------------------------------------
(* C7: a ThenChange met with no open block fails the scan at that marker   *)
(* with a "no matching OnChange" error citing the file and the marker's    *)
(* line; no later marker is handled.                                       *)
C7_NoMatchingOnChange ==
    /\ \A j \in 1..Len(matches) :
          ExcessAt(j) =>
             /\ j = Len(matches)
             /\ scan_result.kind = "err"
             /\ scan_result.err.what = "no matching OnChange"
             /\ scan_result.err.file = scan_path
             /\ scan_result.err.line = matches[j].line
    /\ (scan_result.err.what = "no matching OnChange" =>
          matches # <<>> /\ ExcessAt(Len(matches)))

\* the unmatched ThenChange follows a closed block and names a missing file
C7_Witness ==
    /\ scan_result.err.what = "no matching OnChange"
    /\ Len(blocks) = 1
    /\ matches[Len(matches)].data = <<"z">>
    /\ block_stack = <<>>

----------------------------------------------------------------------------
(* C8: a well-formed marker sequence scans successfully, leaves the stack  *)
(* empty, and gives as many blocks as OnChange and as ThenChange markers;  *)
(* each ThenChange closes the most recently opened still-open OnChange.    *)
C8_BalancedNesting ==
    (ScanFinished /\ WellFormed) =>
        /\ scan_result.kind = "ok"
        /\ block_stack = <<>>
        /\ Len(scan_result.val) = NumOn(1, Len(matches))
        /\ Len(scan_result.val) = NumThen(1, Len(matches))
        /\ \A k \in 1..Len(scan_result.val) :
              /\ scan_result.val[k].start_line = matches[Partner(ThenIndex(k))].line
              /\ scan_result.val[k].name =
                    OptionName(matches[Partner(ThenIndex(k))].data)
              /\ scan_result.val[k].end_line = matches[ThenIndex(k)].line

\* two nested pairs: the inner block is closed first
C8_Witness ==
    /\ scan_result.kind = "ok"
    /\ WellFormed
    /\ Len(scan_result.val) = 2
    /\ scan_result.val[2].start_line < scan_result.val[1].start_line
    /\ scan_result.val[1].end_line < scan_result.val[2].end_line

----------------------------------------------------------------------------
(* C9, as claimed: every block a successful scan returns has               *)
(* start_line < end_line.                                                  *)
C9_StartBeforeEnd ==
    scan_result.kind = "ok" =>
        \A k \in 1..Len(scan_result.val) :
            scan_result.val[k].start_line < scan_result.val[k].end_line

(* What parse_internal does guarantee: every block a successful scan      *)
(* returns has start_line <= end_line, and start_line < end_line unless    *)
(* its two markers are on the same line.                                   *)
StartNotAfterEnd ==
    /\ \A k \in 1..Len(blocks) :
          /\ 1 <= blocks[k].start_line
          /\ blocks[k].start_line <= blocks[k].end_line
    /\ scan_result.kind = "ok" =>
          \A k \in 1..Len(scan_result.val) :
              /\ scan_result.val[k].start_line <= scan_result.val[k].end_line
              /\ (matches[Partner(ThenIndex(k))].line < matches[ThenIndex(k)].line
                    => scan_result.val[k].start_line < scan_result.val[k].end_line)

\* a block whose two markers share a line, and one whose markers do not
C9_Witness ==
    /\ scan_result.kind = "ok"
    /\ \E k \in 1..Len(scan_result.val) :
          scan_result.val[k].start_line = scan_result.val[k].end_line
    /\ \E k \in 1..Len(scan_result.val) :
          scan_result.val[k].start_line < scan_result.val[k].end_line

----------------------------------------------------------------------------
(* The text of a ThenChange(...), read by positions *)

CommasOf(t) == {i \in 1..Len(t) : t[i] = ","}
NumEntries(t) == Cardinality(CommasOf(t)) + 1
NthComma(t, k) ==
    CHOOSE i \in CommasOf(t) : Cardinality({c \in CommasOf(t) : c <= i}) = k
EntryOf(t, k) ==
    Trim(SubSeq(t,
                IF k = 1 THEN 1 ELSE NthComma(t, k - 1) + 1,
                IF k = NumEntries(t) THEN Len(t) ELSE NthComma(t, k) - 1))
ColonsOf(e) == {i \in 1..Len(e) : e[i] = ":"}
FilePartOf(e) == SubSeq(e, 1, MinOf(ColonsOf(e)) - 1)
NamePartOf(e) ==
    SubSeq(e, MinOf(ColonsOf(e)) + 1,
           IF Cardinality(ColonsOf(e)) = 1 THEN Len(e)
           ELSE MinOf(ColonsOf(e) \ {MinOf(ColonsOf(e))}) - 1)
\* a bare file name is a sibling of the referencing file
Sibling(name) == SubSeq(tc_path, 1, Len(tc_path) - 1) \o <<name>>

(* C10: build_then_change gives NoTarget for an empty or blank text; a     *)
(* text of k comma-separated entries that parses gives Targets with k      *)
(* entries in order, each trimmed and classified alone: no ":" a File      *)
(* target, ":Y" a Block target Y with no file, "X:Y" a Block target Y in   *)
(* the file X resolves to.                                                 *)
C10_TargetParsing ==
    /\ (Trim(tc_text) = <<>> /\ then_change.kind # "pending"
          => then_change = Ok(NoTarget))
    /\ (then_change.kind = "ok" /\ Trim(tc_text) # <<>> =>
          /\ then_change.val.kind = "Targets"
          /\ Len(then_change.val.targets) = NumEntries(Trim(tc_text))
          /\ \A k \in 1..NumEntries(Trim(tc_text)) :
                LET e == EntryOf(Trim(tc_text), k)
                    t == then_change.val.targets[k]
                IN IF ColonsOf(e) = {}
                   THEN t = FileTarget(Sibling(e))
                   ELSE IF e[1] = ":"
                   THEN t = BlockTarget(NamePartOf(e), None)
                   ELSE t = BlockTarget(NamePartOf(e), Some(Sibling(FilePartOf(e)))))

\* a File entry, a same-file Block entry and a cross-file Block entry in one list
C10_Witness ==
    /\ then_change.kind = "ok"
    /\ then_change.val.kind = "Targets"
    /\ Len(then_change.val.targets) = 2
    /\ then_change.val.targets[1].kind = "File"
    /\ then_change.val.targets[2].kind = "Block"
    /\ then_change.val.targets[2].file # None
    /\ Len(tc_path) = 2

----------------------------------------------------------------------------
(* Claims about parse_then_target_file_path *)

\* the components of a text that name a file or directory
IsNormal(c) == c # CurDir /\ c # ParentDir /\ c # RootDir
HasParentDir(p) == \E i \in 1..Len(p) : p[i] = ParentDir
DotDotAfterNormal(p) ==
    \E i \in 1..Len(p) : p[i] = ParentDir /\ \E j \in 1..(i - 1) : IsNormal(p[j])
PathResolved == tc_file_path.kind # "pending"

(* C11: in a relative target ".." is allowed only as a prefix: a target    *)
(* with a ".." after a normal component is an "is invalid" error even when *)
(* the file it denotes exists, and no accepted path has a ".." component.  *)
C11_DotDotOnlyPrefix ==
    PathResolved =>
      /\ (IsRelative(tc_text) /\ DotDotAfterNormal(Components(tc_text))
            => tc_file_path.kind = "err" /\ tc_file_path.err.what = "is invalid")
      /\ (tc_file_path.kind = "ok" => ~HasParentDir(tc_file_path.val))

\* a target with ".." after a normal component is accepted, ".." kept
C11_Witness ==
    /\ IsRelative(tc_text)
    /\ DotDotAfterNormal(Components(tc_text))
    /\ tc_file_path.kind = "ok"
    /\ HasParentDir(tc_file_path.val)

\* the accepted half of the rule: "../../../x" from a file three directories deep
PrefixDotDotAccepted ==
    PathResolved /\ tc_path = PathDDDA
                 /\ tc_text = JoinSegs(<<ParentDir, ParentDir, ParentDir, <<"a">>>>)
      => tc_file_path = Ok(PathA)

\* the target text read segment by segment: the names and ".." it is made of
IsDotOrEmpty(seg) == seg = <<>> \/ seg = CurDir
TargetSegs(t) == SelectSeq(SplitStr(t, "/"), LAMBDA seg : ~IsDotOrEmpty(seg))
\* how many ".." the text starts with
LeadingUps(segs) ==
    MaxOf({k \in 0..Len(segs) : \A i \in 1..k : segs[i] = ParentDir})
DirOf(path) == SubSeq(path, 1, Len(path) - 1)
\* k directories up from dir; above the scan root only ".." can name the place
UpFrom(dir, k) ==
    IF k <= Len(dir) THEN SubSeq(dir, 1, Len(dir) - k)
    ELSE [i \in 1..(k - Len(dir)) |-> ParentDir]
ExpectedRelative(path, t) ==
    UpFrom(DirOf(path), LeadingUps(TargetSegs(t)))
      \o SubSeq(TargetSegs(t), LeadingUps(TargetSegs(t)) + 1, Len(TargetSegs(t)))
\* a path without its "." components, which name no directory of their own
WithoutCurDir(p) == SelectSeq(p, LAMBDA c : c # CurDir)

(* C12: a target that does not start with "/" resolves against the         *)
(* directory of the referencing file: leading "." dropped, each leading    *)
(* ".." one directory up, the rest joined; it is accepted exactly when     *)
(* that path exists.  "b" in d/a is d/b and not the root-level b, "../b"   *)
(* in d/a is b.                                                            *)
C12_RelativeResolution ==
    PathResolved /\ IsRelative(tc_text) =>
      /\ (tc_file_path.kind = "ok"
            => WithoutCurDir(tc_file_path.val) = ExpectedRelative(tc_path, tc_text))
      /\ (tc_file_path.kind = "err"
            => /\ tc_file_path.err.what = "does not exist"
               /\ ~Exists(fs, ExpectedRelative(tc_path, tc_text), EndsAsDir(tc_text)))
      /\ (tc_path = PathDA /\ PathDB \in Files(fs) /\ tc_text = <<"b">>
            => tc_file_path = Ok(PathDB))
      /\ (tc_path = PathDA /\ PathB \in Files(fs) /\ tc_text = <<".", ".", "/", "b">>
            => tc_file_path = Ok(PathB))

\* a bare name in a nested file while a root-level file of that name exists
C12_Witness ==
    /\ tc_path = PathDA
    /\ tc_text = <<"b">>
    /\ PathB \in Files(fs)
    /\ tc_file_path = Ok(PathDB)

\* one directory up and down again: "../d/b" written in d/a
C12_WitnessUp ==
    /\ tc_path = PathDA
    /\ LeadingUps(TargetSegs(tc_text)) = 1
    /\ tc_file_path = Ok(PathDB)

\* the forms of a target: relative, "//" before a relative path, other texts
IsRootRelative(t) == StartsWith(t, <<"/", "/">>) /\ IsRelative(StripSlashes(t))
\* the path a well-formed target stands for, read off the segments of its text
ExpectedPath(path, t) ==
    IF IsRootRelative(t) THEN TargetSegs(StripSlashes(t))
    ELSE ExpectedRelative(path, t)

C13_WitnessMissing ==
    /\ IsRootRelative(tc_text)
    /\ tc_line = 2
    /\ tc_file_path.kind = "err"
    /\ tc_file_path.err.what = "does not exist"
    /\ tc_file_path.err.line = 2

----------------------------------------------------------------------------
(* Claims about Parser::from_files *)

\* the "while let Some(path) = file_stack.pop()" loop has run to its end
WorklistDone == mode = "repo" /\ pc \in {"parsing", "built", "invalid"} /\ file_stack = <<>>
FromFilesDone == pc \notin {"start", "parsing"}
\* the files the targets of the file map's blocks name
TargetFilesOf(files_) ==
    UNION {UNION {{Unwrap(t.file) : t \in {x \in Range(TargetsOf(b)) : IsSome(x.file)}} :
                     b \in Range(files_[p])} : p \in DOMAIN files_}

(* C14: from_files terminates for every file set, target cycles included,  *)
(* and when its loop ends, so also on success, the file map holds every    *)
(* seed path and the file of every File target and cross-file Block target *)
(* of every file it holds, seeded or not.                                  *)
C14_FromFilesTerminatesClosed ==
    /\ [](WorklistDone =>
            /\ StagedFiles \subseteq DOMAIN files
            /\ TargetFilesOf(files) \subseteq DOMAIN files)
    /\ [](mode = "repo" /\ parser.kind = "ok" =>
            /\ StagedFiles \subseteq DOMAIN files
            /\ TargetFilesOf(files) \subseteq DOMAIN files)
    /\ (mode = "repo" => <>FromFilesDone)

\* f and g target each other, only f is seeded, and the construction succeeds
C14_Witness ==
    /\ mode = "repo"
    /\ fs[PathF] = ToG /\ fs[PathG] = ToF
    /\ paths = <<PathF>>
    /\ pc = "built"
    /\ parser.kind = "ok"
    /\ DOMAIN files = {PathF, PathG}

----------------------------------------------------------------------------
(* Claims about the change detection *)

HunkChecked == hk_changed # "idle"
LinesOf(h, kind) == {i \in 1..Len(h.lines) : h.lines[i].kind = kind}
\* the new-file line the i-th line of the hunk stands at: a removed line
\* stands where the next kept line is
NewPos(h, i) ==
    h.start_line + Cardinality({j \in 1..(i - 1) : h.lines[j].kind # "Remove"})
AddsInside(h, b) ==
    {i \in LinesOf(h, "Add") :
        h.lines[i].new >= b.start_line /\ h.lines[i].new <= b.end_line}
\* removed lines that lay after the block's first line and before its last
RemovesInside(h, b) ==
    {i \in LinesOf(h, "Remove") : NewPos(h, i) > b.start_line /\ NewPos(h, i) <= b.end_line}

(* C15: a hunk that adds a line inside [start_line, end_line] reports the  *)
(* block changed; a hunk whose added and removed lines all lie outside     *)
(* the block's span does not, whichever boundary lines are among its       *)
(* context lines.                                                          *)
C15_ChangePrecision ==
    HunkChecked =>
      /\ (AddsInside(hk_hunk, hk_block) # {} => hk_changed = "changed")
      /\ (AddsInside(hk_hunk, hk_block) = {} /\ RemovesInside(hk_hunk, hk_block) = {}
            => hk_changed = "unchanged")

\* both halves for blocks whose markers are on different lines
C15_ForMultiLineBlocks ==
    hk_block # <<>> /\ hk_block.start_line < hk_block.end_line => C15_ChangePrecision

\* a block on one line, its line a context line, a line removed after it
C15_Witness ==
    /\ hk_changed = "changed"
    /\ AddsInside(hk_hunk, hk_block) = {}
    /\ RemovesInside(hk_hunk, hk_block) = {}

\* the marker lines are left alone: neither is a line the hunk adds
MarkersUntouched(h, b) ==
    \A i \in LinesOf(h, "Add") :
        h.lines[i].new # b.start_line /\ h.lines[i].new # b.end_line

(* C16: when the staged diff removes a line that lay between the block's   *)
(* OnChange and ThenChange lines and leaves both marker lines untouched,   *)
(* the block is reported changed, whatever its length and wherever the     *)
(* removed line was.                                                       *)
C16_RemovalInsideDetected ==
    HunkChecked /\ RemovesInside(hk_hunk, hk_block) # {}
                /\ MarkersUntouched(hk_hunk, hk_block)
      => hk_changed = "changed"

\* the removal is detected whenever the hunk shows a marker line as context
C16_DetectedNextToMarker ==
    HunkChecked /\ RemovesInside(hk_hunk, hk_block) # {}
                /\ (\E i \in LinesOf(hk_hunk, "Context") :
                       hk_hunk.lines[i].new \in {hk_block.start_line, hk_block.end_line})
      => hk_changed = "changed"

\* a line removed in the middle of a block, three context lines on each
\* side, neither marker line among them
C16_Witness ==
    /\ hk_changed = "unchanged"
    /\ hk_block.start_line < hk_hunk.start_line
    /\ hk_hunk.end_line < hk_block.end_line
    /\ Len(hk_hunk.lines) = 7
    /\ LinesOf(hk_hunk, "Remove") = {4}
    /\ LinesOf(hk_hunk, "Add") = {}

(* C17: building and validating the graph twice on the same files gives    *)
(* the same result, the same file map or the same error, whatever order    *)
(* the worklist pops the files in: every run agrees with the run that      *)
(* reads each set of paths in order.                                       *)
C17_SameResultEveryRun ==
    mode = "repo" /\ FromFilesDone => parser = from_files_in_order(fs, paths)

\* what every run shares: success or failure, and on success the file map
C17_SameOutcomeEveryRun ==
    mode = "repo" /\ FromFilesDone =>
      /\ parser.kind = from_files_in_order(fs, paths).kind
      /\ (parser.kind = "ok" => parser = from_files_in_order(fs, paths))
      /\ (parser.kind = "err" /\ pc = "invalid" => parser = from_files_in_order(fs, paths))

\* two targets of one file are both broken; this run reports the other one
C17_Witness ==
    /\ mode = "repo"
    /\ pc = "failed"
    /\ parser.kind = "err"
    /\ from_files_in_order(fs, paths).kind = "err"
    /\ parser.err.file # from_files_in_order(fs, paths).err.file

----------------------------------------------------------------------------
(* Claims about main *)

Exited == exit_code # -1
ConstructionOk == parser.kind = "ok"
ValidationRun == violations.kind # "pending"

(* C18: the exit code is 0 exactly when the construction raised no error   *)
(* and, in repo mode, no violation was found; a failed construction is     *)
(* reported and ends the process with a non-zero code before any change    *)
(* validation; violations are printed and end it with a non-zero code;     *)
(* directory mode never validates changes; repo mode with no staged file   *)
(* ends with 0.                                                            *)
C18_ExitCodes ==
    Exited =>
      /\ (exit_code = 0 <=>
            /\ ConstructionOk
            /\ (mode = "repo" /\ ValidationRun => violations = Ok(<<>>)))
      /\ (~ConstructionOk =>
            /\ exit_code # 0
            /\ stderr # ""
            /\ ~ValidationRun)
      /\ (violations.kind = "ok" /\ violations.val # <<>> =>
            /\ exit_code # 0
            /\ stderr = "Violations:"
            /\ shown = violations.val)
      /\ (mode = "directory" => ~ValidationRun)
      /\ (mode = "repo" /\ paths = <<>> => exit_code = 0)

(* C18, amended: as C18, but the violations printed are the first          *)
(* DEFAULT_MAX_VIOLATIONS_TO_DISPLAY of the list, in the order of the      *)
(* list; the others are left out.                                          *)
C18_ExitCodesFirstShown ==
    Exited =>
      /\ (exit_code = 0 <=>
            /\ ConstructionOk
            /\ (mode = "repo" /\ ValidationRun => violations = Ok(<<>>)))
      /\ (~ConstructionOk =>
            /\ exit_code # 0
            /\ stderr # ""
            /\ ~ValidationRun)
      /\ (violations.kind = "ok" /\ violations.val # <<>> =>
            /\ exit_code # 0
            /\ stderr = "Violations:"
            /\ Len(shown) = MinOf({Len(violations.val), DEFAULT_MAX_VIOLATIONS_TO_DISPLAY})
            /\ \A i \in 1..Len(shown) : shown[i] = violations.val[i])
      /\ (mode = "directory" => ~ValidationRun)
      /\ (mode = "repo" /\ paths = <<>> => exit_code = 0)

\* a repo run that found more violations than main prints, and left with a
\* non-zero code
C18_Witness ==
    /\ Exited
    /\ mode = "repo"
    /\ violations.kind = "ok"
    /\ Len(violations.val) > DEFAULT_MAX_VIOLATIONS_TO_DISPLAY
    /\ Len(shown) = DEFAULT_MAX_VIOLATIONS_TO_DISPLAY
    /\ exit_code = 1

----------------------------------------------------------------------------
(* Claims about unnamed blocks *)

AllParsedBlocks == UNION {Range(files[p]) : p \in DOMAIN files}
UnnamedBlocks == {b \in AllParsedBlocks : ~IsTargetable(b)}

\* the violations that a changed block is the source of
ViolationsFrom(b) == {j \in 1..Len(violations.val) : violations.val[j].block = b}

\* the targets of a changed block that did not change, by position
UnmetTargetsOf(b) == {k \in 1..Len(TargetsOf(b)) : Unmet(b, TargetsOf(b)[k])}

\* the index of targetable blocks holds a key only for a named block
UnnamedNotIndexed ==
    parser.kind = "ok" =>
        \A key \in on_change_blocks(files) :
            \E b \in Range(files[key[1]]) :
                IsTargetable(b) /\ Unwrap(b.name) = key[2]

\* the changed targetable set holds a key only for a changed named block
UnnamedNotInChangedTargetable ==
    \A key \in targetable_blocks_changed :
        \E b \in Range(blocks_changed) :
            IsTargetable(b) /\ b.file = key[1] /\ Unwrap(b.name) = key[2]

\* the block a violation names as the unmet target is a named one
UnnamedNeverUnmetTarget ==
    ChangesValidated =>
        \A j \in 1..Len(violations.val) :
            IsSome(violations.val[j].target_block) =>
                IsTargetable(Unwrap(violations.val[j].target_block))

\* a changed unnamed block is the source of one violation per unmet target
UnnamedIsSource ==
    ChangesValidated =>
        \A b \in Range(blocks_changed) :
            ~IsTargetable(b) =>
                Cardinality(ViolationsFrom(b)) = Cardinality(UnmetTargetsOf(b))

(* C19: an unnamed block is never in the index of targetable blocks nor in *)
(* the changed targetable set, no violation names an unnamed block as the  *)
(* unmet target, and a changed unnamed block is the source of one          *)
(* violation for each of its own targets that did not change.              *)
C19_UnnamedNeverTarget ==
    /\ UnnamedNotIndexed
    /\ UnnamedNotInChangedTargetable
    /\ UnnamedNeverUnmetTarget
    /\ UnnamedIsSource

(* C19, the part that holds: all of C19 but the block that a violation     *)
(* names as the unmet target.                                              *)
C19_UnnamedOnlySource ==
    /\ UnnamedNotIndexed
    /\ UnnamedNotInChangedTargetable
    /\ UnnamedIsSource

\* f's block changed, g's block with the name of the unnamed ones did not:
\* the violation names g's unnamed block
C19_Witness ==
    /\ ChangesValidated
    /\ \E j \in 1..Len(violations.val) :
          /\ IsSome(violations.val[j].target_block)
          /\ Unwrap(violations.val[j].target_block) \in UnnamedBlocks
          /\ violations.val[j].block.name = Some(<<"a">>)

----------------------------------------------------------------------------
(* Claims about the scans of from_files *)

\* how many times from_files gave the path to File::parse
TimesScanned(p) == Cardinality({i \in 1..Len(scanned) : scanned[i] = p})

\* how many times the path waits on the work stack
TimesStacked(p) == Cardinality({i \in 1..Len(file_stack) : file_stack[i] = p})

(* C20: during from_files every path is scanned at most once: a path that  *)
(* is in the file map or waits on the work stack is not scanned again.     *)
C20_ScannedAtMostOnce ==
    mode = "repo" => \A p \in RepoPaths : TimesScanned(p) <= 1

(* C20, the part that holds: the check made at the push keeps a path of    *)
(* the file map off the stack only if it is there when the path is pushed: *)
(* a path pushed onto the stack is not a key of the file map at that time. *)
C20_PushedNotInMap ==
    [][\A p \in RepoPaths :
          (pc = "parsing" /\ TimesStacked(p)' > TimesStacked(p)) =>
              p \notin DOMAIN files']_vars

\* a path was scanned twice: it was already on the stack when a scanned file
\* named it
C20_Witness ==
    /\ mode = "repo"
    /\ pc = "built"
    /\ \E p \in RepoPaths : TimesScanned(p) = 2

----------------------------------------------------------------------------
(* Claims about the fast overlap test *)

OverlapChecked == hk_overlap # "idle"

\* the line ranges of the hunk and of the block share a line
ShareLine(hunk, b) ==
    \E l \in b.start_line..b.end_line : hunk.start_line <= l /\ l <= hunk.end_line

HunkBefore(hunk, b) == hunk.end_line < b.start_line
HunkAfter(hunk, b) == hunk.start_line > b.end_line

(* C21: is_hunk_overlap is true exactly when the line range of the hunk    *)
(* and the line range of the block share a line, and false for a hunk that *)
(* lies before the block's start or after its end.                         *)
C21_OverlapIffShareLine ==
    OverlapChecked =>
      /\ (hk_overlap = "overlap" <=> ShareLine(hk_hunk, hk_block))
      /\ (HunkBefore(hk_hunk, hk_block) \/ HunkAfter(hk_hunk, hk_block)
            => hk_overlap = "disjoint")

(* C21, what holds: the test is true for every hunk and every block, so    *)
(* it is true whenever the ranges share a line.                            *)
C21_OverlapAlways ==
    OverlapChecked => hk_overlap = "overlap"

\* a hunk that ends before the block starts, taken as overlapping
C21_Witness ==
    /\ OverlapChecked
    /\ HunkBefore(hk_hunk, hk_block)
    /\ hk_hunk.start_line <= hk_hunk.end_line
    /\ hk_overlap = "overlap"

----------------------------------------------------------------------------
(* Claims about the two forms of a hunk *)

EventChecked == hk_event # "idle"

\* an added line strictly between the two markers of the block
AddsBetweenMarkers(hunk, b) ==
    {i \in AddsInside(hunk, b) :
        hunk.lines[i].new > b.start_line /\ hunk.lines[i].new < b.end_line}

(* C22: for every hunk and every block, the changed lines found with the   *)
(* running counters, asked about the block's range, and is_changed_by_hunk *)
(* on the line events give the same answer.                                *)
C22_RepresentationsAgree ==
    EventChecked =>
        (hk_event = "changed" <=> is_changed_by_hunk(hk_block, hk_hunk))

(* C22, what holds: a line added strictly between the two markers of the   *)
(* block is a change for both.                                             *)
C22_AgreeOnAddsBetweenMarkers ==
    (EventChecked /\ AddsBetweenMarkers(hk_hunk, hk_block) # {}) =>
        /\ hk_event = "changed"
        /\ is_changed_by_hunk(hk_block, hk_hunk)

\* a hunk that removes a line between the markers of the block and adds
\* none: a change for is_changed_by_hunk, none for the changed lines
C22_Witness ==
    /\ EventChecked
    /\ hk_event = "unchanged"
    /\ is_changed_by_hunk(hk_block, hk_hunk)
    /\ OldStart(hk_hunk) = hk_hunk.start_line
    /\ \A i \in 1..Len(hk_hunk.lines) : hk_hunk.lines[i].kind # "Add"
    /\ hk_block.start_line < hk_block.end_line

----------------------------------------------------------------------------
(* Claims about the worker threads of from_directory *)

DirMerged == mode = "directory" /\ pc \in {"built", "invalid"}
AllScansDone == \A p \in DOMAIN workers : WorkerDone(workers[p])

\* the map holds one entry per walked file, with the blocks of the scan of
\* that file on its own
OwnScans ==
    /\ DOMAIN files = Range(paths)
    /\ \A p \in DOMAIN files :
          /\ parse_internal(fs, p).kind = "ok"
          /\ files[p] = parse_internal(fs, p).val

\* a step of one scan leaves the other scans as they are
OneScanPerStep ==
    \A p, q \in DOMAIN workers :
        (DOMAIN workers' = DOMAIN workers
           /\ workers'[p] # workers[p] /\ workers'[q] # workers[q]) => p = q

\* the map is written in the step of the merging thread, after every scan
MapWrittenAfterScans ==
    files' # files => (pc = "collected" /\ AllScansDone /\ workers' = workers)

(* C23: whatever the order and interleaving of the workers' steps, the     *)
(* merged map holds one entry per walked file, under its path, with the    *)
(* blocks of that file's own scan, and the parser is the one of the        *)
(* sequential from_directory; a step of a scan changes the state of no     *)
(* other scan, and the map is written only by the merging thread after all *)
(* scans have finished.                                                    *)
C23_ScheduleIndependent ==
    /\ [](DirMerged => (OwnScans /\ parser = from_directory(fs, Range(paths))))
    /\ [](mode = "directory" /\ pc = "failed"
            => (files = NoFiles /\ parser = from_directory(fs, Range(paths))))
    /\ [][OneScanPerStep /\ MapWrittenAfterScans]_vars

\* three files scanned by three workers, two of them with blocks, and the
\* map merged
C23_Witness ==
    /\ DirMerged
    /\ Len(paths) = 3
    /\ AllScansDone
    /\ Cardinality({p \in DOMAIN files : Len(files[p]) >= 1}) >= 2
    /\ Len(file_items) = 3
    /\ parser.kind = "ok"

----------------------------------------------------------------------------
(* Claims about then_change = Unset *)

\* then_change is NoTarget, or Targets with at least one entry
Settled(b) ==
    \/ b.then_change.kind = "NoTarget"
    \/ b.then_change.kind = "Targets" /\ Len(b.then_change.targets) >= 1

(* C24: every block of a finished scan, and so every block of the file     *)
(* map, has then_change NoTarget or Targets with one entry or more; the    *)
(* construction never ends in the Unset error of validate nor in the       *)
(* unreachable!() of File::parse.                                          *)
C24_NoUnsetAfterScan ==
    /\ \A b \in Range(blocks) : Settled(b)
    /\ scan_result.kind = "ok" => \A b \in Range(scan_result.val) : Settled(b)
    /\ \A p \in DOMAIN files : \A b \in Range(files[p]) : Settled(b)
    /\ parser.err.what \notin {"unset OnChange target", "unreachable"}

\* a parser built from files with blocks of both kinds
C24_Witness ==
    /\ parser.kind = "ok"
    /\ \E p \in DOMAIN files : \E b \in Range(files[p]) :
          b.then_change.kind = "NoTarget"
    /\ \E p \in DOMAIN files : \E b \in Range(files[p]) :
          b.then_change.kind = "Targets" /\ Len(b.then_change.targets) = 3

----------------------------------------------------------------------------
(* Claims about byte_to_line *)

\* the newline bytes before the position p, the first byte being at 0
NewlinesBefore(data, p) == Cardinality({i \in 1..p : data[i] = "\n"})

MappingBuilt == ln_map # <<>>
LineFound == ln_line # Pending

(* C25: for every position inside a file that is not empty, byte_to_line   *)
(* gives 1 plus the number of newline bytes before the position; the       *)
(* offsets of the table start at (0, 1) and increase strictly, with the    *)
(* line numbers in sequence; the lookup stays inside the table.            *)
C25_ByteToLine ==
    /\ MappingBuilt =>
          /\ ln_map[1] = <<0, 1>>
          /\ \A i \in 1..(Len(ln_map) - 1) :
                /\ ln_map[i][1] < ln_map[i + 1][1]
                /\ ln_map[i + 1][2] = ln_map[i][2] + 1
          /\ ln_map[Len(ln_map)][1] < Len(ln_data)
    /\ LineFound => ln_line = Ok(1 + NewlinesBefore(ln_data, ln_pos))

\* a position after the first byte of the third line, which no entry of the
\* table holds
C25_Witness ==
    /\ LineFound
    /\ ln_line = Ok(3)
    /\ \A i \in 1..Len(ln_map) : ln_map[i][1] # ln_pos
    /\ Len(ln_map) = 3

----------------------------------------------------------------------------
(* Claims about the totality of build_then_change *)

TargetsParsed == then_change # Pending

\* an entry of the comma-separated list that is empty once trimmed
HasEmptyEntry(text) ==
    \E i \in 1..Len(SplitByComma(Trim(text))) :
        Trim(SplitByComma(Trim(text))[i]) = <<>>

(* C26: build_then_change returns a ThenChange value or an error value for *)
(* every ThenChange text, an empty entry between or after commas included; *)
(* it never panics.                                                        *)
C26_TargetParsingTotal ==
    TargetsParsed => then_change.kind \in {"ok", "err"}

\* "a," in a file of the scan root: the entry after the comma is empty
C26_Witness ==
    /\ TargetsParsed
    /\ tc_text = <<"a", ",">>
    /\ HasEmptyEntry(tc_text)
    /\ then_change.kind = "panic"

----------------------------------------------------------------------------
(* Claims about the lookup of a target block in change validation *)

\* the Block targets of a parsed block, each with the file it names
BlockTargetsOf(b) == {t \in Range(TargetsOf(b)) : t.kind = "Block"}

\* a Block target of a changed block that is not in the changed targetable set
UnmetBlockTarget(b, t) ==
    /\ t \in BlockTargetsOf(b)
    /\ <<UnwrapOr(t.file, b.file), t.block>> \notin targetable_blocks_changed

(* C27: for a Parser whose construction succeeded, get_block_in_file finds *)
(* a block for every Block target of every block, so change validation     *)
(* never fails with "block should exist" and builds one violation for each *)
(* Block target of a changed block that is not in the changed targetable   *)
(* set.                                                                    *)
C27_TargetBlockFound ==
    /\ ConstructionOk =>
          \A b \in AllParsedBlocks : \A t \in BlockTargetsOf(b) :
              get_block_in_file(files, UnwrapOr(t.file, b.file), t.block) # None
    /\ ValidationRun =>
          /\ violations.kind = "ok"
          /\ \A i \in 1..Len(blocks_changed) :
                \A t \in BlockTargetsOf(blocks_changed[i]) :
                    UnmetBlockTarget(blocks_changed[i], t) =>
                        \E j \in 1..Len(violations.val) :
                            /\ violations.val[j].block = blocks_changed[i]
                            /\ violations.val[j].target_file =
                                   UnwrapOr(t.file, blocks_changed[i].file)
                            /\ IsSome(violations.val[j].target_block)
                            /\ BlockName(Unwrap(violations.val[j].target_block)) = t.block

\* validation has run over a changed block with a Block target in another
\* file that did not change, and the target block is not the first of its file
C27_Witness ==
    /\ ValidationRun
    /\ violations.kind = "ok"
    /\ \E i \in 1..Len(blocks_changed) : \E t \in BlockTargetsOf(blocks_changed[i]) :
          /\ UnmetBlockTarget(blocks_changed[i], t)
          /\ IsSome(t.file)
          /\ BlockName(files[Unwrap(t.file)][1]) # t.block

----------------------------------------------------------------------------
(* Claims about find_changed_blocks over several hunks *)

StagedBlocks == files[PathF]
ChangedCollected == pc \in {"finding", "validated"} /\ hunk_todo = <<>>

\* the hunks of the file that pass the overlap filter and change the block
HunksChanging(b) ==
    {k \in 1..Len(staged_hunks) :
        /\ is_block_overlap(staged_hunks[k], b.start_line, b.end_line)
        /\ is_changed_by_hunk(b, staged_hunks[k])}

TimesReported(b) ==
    Cardinality({j \in 1..Len(blocks_changed) : blocks_changed[j] = b})

(* C28: find_changed_blocks reports each block of the file at most once,   *)
(* however many hunks change it, and reports a block iff at least one hunk *)
(* that passes the overlap filter changes it; an unmet target of a changed *)
(* block yields one violation.                                             *)
C28_ReportedOnce ==
    /\ ChangedCollected =>
          \A i \in 1..Len(StagedBlocks) :
              /\ TimesReported(StagedBlocks[i]) <= 1
              /\ TimesReported(StagedBlocks[i]) = 1
                     <=> HunksChanging(StagedBlocks[i]) # {}
    /\ ChangedCollected /\ ValidationRun =>
          /\ violations.kind = "ok"
          /\ \A i \in 1..Len(StagedBlocks) :
                Cardinality(ViolationsFrom(StagedBlocks[i]))
                    = TimesReported(StagedBlocks[i])

\* two hunks change the same block, a third block is changed by none
C28_Witness ==
    /\ ChangedCollected /\ ValidationRun
    /\ Len(StagedBlocks) = 2
    /\ Cardinality(HunksChanging(StagedBlocks[1])) = 2
    /\ HunksChanging(StagedBlocks[2]) = {}
    /\ Len(violations.val) = 1

----------------------------------------------------------------------------
(* Claims about the nesting of the blocks of a file *)

ScannedOk == scan_result.kind = "ok"

\* a ends no later than b starts, or b ends no later than a ends
NestedOrApart(a, b) ==
    a.end_line <= b.start_line \/ b.end_line <= a.end_line

Laminar(bs) ==
    \A i, j \in 1..Len(bs) :
        i # j /\ bs[i].start_line <= bs[j].start_line => NestedOrApart(bs[i], bs[j])

\* the list is in the order of the closing markers
EndsInClosingOrder(bs) ==
    \A i, j \in 1..Len(bs) : i < j => bs[i].end_line <= bs[j].end_line

\* a block that lies inside another comes before it in the list
NestedFirst(bs) ==
    \A i, j \in 1..Len(bs) :
        /\ i # j
        /\ bs[j].start_line < bs[i].start_line
        /\ bs[i].end_line < bs[j].end_line
        => i < j

(* C29: in a successfully scanned file, any two blocks a and b with        *)
(* a.start_line <= b.start_line are apart (a ends no later than b starts)  *)
(* or nested (b ends no later than a ends); the block list is in the order *)
(* of the closing markers, with end_line non-decreasing and a nested block *)
(* before the block that holds it.                                         *)
C29_Laminar ==
    ScannedOk =>
        /\ Laminar(scan_result.val)
        /\ EndsInClosingOrder(scan_result.val)
        /\ NestedFirst(scan_result.val)

\* two blocks opened on the same line, the inner closed on a later line than
\* it started and the outer closed after it
C29_Witness ==
    /\ ScannedOk
    /\ \E i, j \in 1..Len(scan_result.val) :
          /\ i < j
          /\ scan_result.val[i].start_line = scan_result.val[j].start_line
          /\ scan_result.val[i].start_line < scan_result.val[i].end_line
          /\ scan_result.val[i].end_line < scan_result.val[j].end_line
    /\ ~Laminar(scan_result.val)

----------------------------------------------------------------------------
(* Claims about the end line of a hunk *)

HunkBuilt == hd_hunk # Pending

(* C30: for every header the diff source can emit, a range without lines   *)
(* and the range 0,0 of a file left empty included, Hunk::from computes    *)
(* end_line = new_start + new_count - 1 without unsigned underflow, and    *)
(* start_line <= end_line.                                                 *)
C30_EndLineInRange ==
    HunkBuilt =>
        /\ hd_hunk.kind = "ok"
        /\ hd_hunk.val.end_line = u32(hd_start + hd_count - 1)
        /\ U32Le(hd_hunk.val.start_line, hd_hunk.val.end_line)

\* the header of a file left empty, in a build that checks overflow
C30_Witness ==
    /\ HunkBuilt
    /\ hd_start = 0 /\ hd_count = 0
    /\ hd_hunk.kind = "panic"

====
